---- MODULE Spec2Model ----
(***************************************************************************)
(* The synchronisation engine of the Flickr browser:                       *)
(* ComprehensiveFlickrUpdater (src/src/incremental_updater_true.py) on top *)
(* of FlickrDownloaderOAuth (src/src/oauth_downloader.py).                 *)
(*                                                                         *)
(* One updater process runs at a time.  A step of the model is one remote  *)
(* request, one database commit, or the in-memory statements that follow   *)
(* it, so that the states between two commits are states of the model.     *)
(* The database (photos, photo_albums, albums, comments) outlives the      *)
(* process; the index and the counters are fields of the process.          *)
(*                                                                         *)
(* Spec is the updater process, from main to its exit.  LauncherSpec is    *)
(* the web launcher (src/src/launcher.py): its request threads and its     *)
(* background threads, with the child process as a step that returns one   *)
(* of the results an updater can produce.  FetchSpec is the page loop of   *)
(* the three collection fetches, one page request per step.                *)
(***************************************************************************)
EXTENDS Integers, Sequences, FiniteSets, Bags, TLC

(* ---------------------------- bounds ----------------------------------- *)

\* items of the remote collection: the photostream listing and the album listings together
MaxRemoteItems == 3
\* number of updater processes started in one behaviour
MaxRuns == 2
\* failing requests, database errors, missing tokens and process terminations in one
\* behaviour
MaxFailures == 1
\* start requests the launcher receives in one behaviour
MaxRequests == 3
\* pages of a remote collection
MaxPages == 3

PhotoIds == {"p1", "p2"}
AlbumIds == {"A", "B"}

SeqsUpTo(S, n) == UNION {[1..k -> S] : k \in 0..n}

Range(f) == {f[i] : i \in DOMAIN f}

(* ---------------------------- state ------------------------------------ *)

VARIABLES
  remote,                 \* the remote collection: photostream, album list, album listings
  photos,                 \* table photos: a set of rows
  photo_albums,           \* table photo_albums: a bag of rows
  albums,                 \* table albums: a set of rows
  comments,               \* table comments: a set of rows
  pc,                     \* position of the updater process
  existing_photo_ids,     \* self.existing_photo_ids
  new_photos_count,       \* self.new_photos_count
  new_associations_count, \* self.new_associations_count
  skipped_photos_count,   \* self.skipped_photos_count
  photostream_new_count,  \* self.photostream_new_count
  new_photos,             \* update_photostream: the items of new_photos not yet visited
  albums_left,            \* update_albums: the albums not yet visited
  album_id,               \* update_album_incremental: the album being swept
  album_photos,           \* update_album_incremental: the items of photos not yet visited
  photo,                  \* the item being processed (the dict photo)
  thumbnail_path,         \* local thumbnail_path of the item being processed
  photo_exists_l,         \* download_album_photo: local photo_exists
  in_album,               \* download_album_photo: local in_album
  runs,                   \* processes started so far
  failures,               \* failures injected so far
  run_failed,             \* a request or database call of this run has failed
  start,                  \* what this run found when it started
  requests,               \* per photo id, the detail/thumbnail/comment requests of this run
  stream_new,             \* ids persisted by the photostream sweep of this run
  given_up,               \* ids of the items of this run that an exception has ended
  dropped,                \* sweeps of this run whose collection call has failed
  item,                   \* classification of the item being processed, counters before it
  download_status,        \* launcher.download_status: running flag and message
  handler,                \* per start request, the position of its request thread
  thread,                 \* per start request, the position of its background thread
  config,                 \* the credential file: the request that wrote it last, or 0
  fetch,                  \* a collection fetch: its pages, its loop and its result
  call                    \* calls of a function: its arguments and what it returned

store == <<photos, photo_albums, albums, comments>>
counters == <<new_photos_count, new_associations_count, skipped_photos_count,
              photostream_new_count>>
locals == <<new_photos, albums_left, album_id, album_photos, photo, thumbnail_path,
            photo_exists_l, in_album>>
ghosts == <<runs, failures, run_failed, start, requests, stream_new, given_up, dropped,
            item>>
launcher == <<download_status, handler, thread, config>>
updater == <<remote, store, pc, existing_photo_ids, counters, locals, ghosts>>
vars == <<updater, launcher, fetch, call>>

(* ---------------------------- rows and tables -------------------------- *)

NoPath == ""
ThumbFile(id) == "thumbnails/" \o id \o ".jpg"

NoPhoto == [id |-> "", payload |-> "none"]

\* the row save_photo_metadata_standalone computes from photo_data and thumbnail_path
PhotoRow(photo_data, path) ==
  [id |-> photo_data.id, payload |-> photo_data.payload, thumbnail_path |-> path]

\* mutant: the table is emptied before the insert
ReplacePhotos(rows, row) == {row}

\* INSERT OR REPLACE INTO photos: the row with the same primary key is removed
InsertOrReplacePhoto(rows, row) == {r \in rows : r.id # row.id} \cup {row}

\* mutant: the album row is not written
InsertOrReplaceAlbum_NotSaved(rows, row) == rows

\* INSERT OR REPLACE INTO albums
InsertOrReplaceAlbum(rows, row) == {r \in rows : r.id # row.id} \cup {row}

\* INSERT OR REPLACE INTO comments
InsertOrReplaceComment(rows, row) == {r \in rows : r.id # row.id} \cup {row}

\* datetime.now(): the time of a process, which is later than the time of the one before
now == runs

\* the row save_photo_metadata_junction inserts
LinkRow(photo_id, album) ==
  [photo_id |-> photo_id, album_id |-> album, is_primary |-> 1, date_added |-> now]

HasLinkKey(links, photo_id, album) ==
  \E r \in BagToSet(links) : r.photo_id = photo_id /\ r.album_id = album

\* mutant: a plain INSERT into a table without the composite primary key
InsertLink(links, row) == links (+) SetToBag({row})

\* mutant: INSERT OR REPLACE INTO photo_albums
InsertOrReplaceLink(links, row) ==
  LET kept == {r \in BagToSet(links) :
                 ~(r.photo_id = row.photo_id /\ r.album_id = row.album_id)}
  IN [r \in kept \cup {row} |-> 1]

\* mutant: INSERT OR REPLACE into a table whose primary key is photo_id alone
InsertOrReplaceLinkOfPhoto(links, row) ==
  LET kept == {r \in BagToSet(links) : r.photo_id # row.photo_id}
  IN [r \in kept \cup {row} |-> 1]

\* INSERT OR IGNORE INTO photo_albums under PRIMARY KEY (photo_id, album_id)
InsertOrIgnoreLink(links, row) ==
  IF HasLinkKey(links, row.photo_id, row.album_id) THEN links
  ELSE links (+) SetToBag({row})

StoredIds == {r.id : r \in photos}
StoredLinks == {<<r.photo_id, r.album_id>> : r \in BagToSet(photo_albums)}

(* ---------------------------- the index -------------------------------- *)

\* mutant: the query returns no row
get_existing_photo_ids_NoRows(ok) == {}

\* get_existing_photo_ids: SELECT id FROM photos, or the empty set when the read fails
get_existing_photo_ids(ok) == IF ok THEN StoredIds ELSE {}

\* mutant: the membership test finds no id
photo_exists_NotFound(photo_id) == FALSE

photo_exists(photo_id) == photo_id \in existing_photo_ids

\* mutant: the point query finds a row for every pair
photo_in_album_Found(photo_id, album) == TRUE

\* mutant: the point query finds no row
photo_in_album_NotFound(photo_id, album) == FALSE

\* photo_in_album: SELECT 1 FROM photo_albums WHERE photo_id = ? AND album_id = ?
photo_in_album(photo_id, album) == HasLinkKey(photo_albums, photo_id, album)

(* ---------------------------- initial state ---------------------------- *)

NoItem == [kind |-> "none", status |-> "none", id |-> "", album |-> "",
           base |-> <<0, 0, 0, 0>>]
NoRequests == [p \in PhotoIds |-> [info |-> 0, thumb |-> 0, comments |-> 0]]
NoStart == [clean |-> FALSE, loaded |-> FALSE, ids |-> {}, links |-> {}]

RequestIds == 1..MaxRequests

NoHandler == [pc |-> "none", kind |-> "none", credentials |-> FALSE, response |-> "none"]

\* FlickrLauncher.__init__: no run, no request in flight; the credential file as found
LauncherIdle ==
  /\ download_status = [running |-> FALSE, message |-> "Ready"]
  /\ handler = [r \in RequestIds |-> NoHandler]
  /\ thread = [r \in RequestIds |-> "none"]
  /\ config = 0

RemoteItems(r) == Len(r.photostream) + Len(r.album_photos["A"]) + Len(r.album_photos["B"])

NoCall == [op |-> "none"]

NoFetch == [kind |-> "none", responses |-> <<>>, total |-> 0, page |-> 0, items |-> <<>>,
            asked |-> <<>>, status |-> "none"]

\* no process has run: the store is empty
NoProcess ==
  /\ photos = {}
  /\ photo_albums = EmptyBag
  /\ albums = {}
  /\ comments = {}
  /\ pc = "idle"
  /\ existing_photo_ids = {}
  /\ new_photos_count = 0
  /\ new_associations_count = 0
  /\ skipped_photos_count = 0
  /\ photostream_new_count = 0
  /\ new_photos = <<>>
  /\ albums_left = <<>>
  /\ album_id = ""
  /\ album_photos = <<>>
  /\ photo = NoPhoto
  /\ thumbnail_path = NoPath
  /\ photo_exists_l = FALSE
  /\ in_album = FALSE
  /\ runs = 0
  /\ failures = 0
  /\ run_failed = FALSE
  /\ start = NoStart
  /\ requests = NoRequests
  /\ stream_new = {}
  /\ given_up = {}
  /\ dropped = {}
  /\ item = NoItem

Init ==
  /\ remote \in [photostream : SeqsUpTo(PhotoIds, MaxRemoteItems),
                 albums : {<<"A", "B">>},
                 commented : {{"p1"}},
                 album_photos : [AlbumIds -> SeqsUpTo(PhotoIds, MaxRemoteItems)]]
  /\ RemoteItems(remote) <= MaxRemoteItems
  /\ NoProcess
  /\ LauncherIdle
  /\ fetch = NoFetch
  /\ call = NoCall

(* ---------------------------- failures ---------------------------------- *)

\* the step succeeds
NoFailure == failures' = failures /\ run_failed' = run_failed

\* the step is a failing request or a failing database call
Failure == failures < MaxFailures /\ failures' = failures + 1 /\ run_failed' = TRUE

Outcome(ok) == IF ok THEN NoFailure ELSE Failure

(* ---------------------------- the process ------------------------------ *)

\* the item (photo id, album or "" in the photostream sweep) is classified as kind
Started(kind, photo_id, album) ==
  [kind |-> kind, status |-> "active", id |-> photo_id, album |-> album, base |-> counters]
\* the item is classified as kind, which ends its processing
Skipped(kind, photo_id, album) ==
  [kind |-> kind, status |-> "done", id |-> photo_id, album |-> album, base |-> counters]
Finished == [item EXCEPT !.status = "done"]
Failed == [item EXCEPT !.status = "failed"]

ResetLocals ==
  /\ new_photos' = <<>>
  /\ albums_left' = <<>>
  /\ album_id' = ""
  /\ album_photos' = <<>>
  /\ photo' = NoPhoto
  /\ thumbnail_path' = NoPath
  /\ photo_exists_l' = FALSE
  /\ in_album' = FALSE

ResetCounters ==
  /\ new_photos_count' = 0
  /\ new_associations_count' = 0
  /\ skipped_photos_count' = 0
  /\ photostream_new_count' = 0

\* the positions of a process that has exited: after the summary (exit status 0), without a
\* token (2), after a login response that is not ok (1), after an exception in main (1)
Exited == {"done", "auth_required", "auth_failed", "error"}

\* main and ComprehensiveFlickrUpdater.__init__: a new process; the counters are zero,
\* the index is loaded from storage and the junction table is ensured
StartRun(ok) ==
  /\ pc \in {"idle"} \cup Exited
  /\ runs < MaxRuns
  /\ runs' = runs + 1
  /\ IF ok THEN failures' = failures
     ELSE failures < MaxFailures /\ failures' = failures + 1
  /\ run_failed' = ~ok
  /\ existing_photo_ids' = get_existing_photo_ids(ok)
  /\ ResetCounters
  /\ ResetLocals
  /\ start' = [clean |-> pc = "done" /\ ~run_failed, loaded |-> ok,
               ids |-> StoredIds, links |-> StoredLinks]
  /\ requests' = NoRequests
  /\ stream_new' = {}
  /\ given_up' = {}
  /\ dropped' = {}
  /\ item' = NoItem
  /\ pc' = "load_token"
  /\ UNCHANGED <<launcher, fetch, call, remote, store>>

(* ---------------------------- authentication --------------------------- *)

\* main, the token check: load_token reads the token file; without a token the process
\* prints its message and exits with status 2
load_token(has_token) ==
  /\ pc = "load_token"
  /\ Outcome(has_token)
  /\ pc' = IF has_token THEN "login" ELSE "auth_required"
  /\ UNCHANGED <<launcher, fetch, call, remote, store, existing_photo_ids, counters, locals,
                 runs, start, requests, stream_new, given_up, dropped, item>>

\* main, the login test: flickr.test.login; a response that is not ok ends the process
\* with status 1, an exception reaches the handler of main, which exits with status 1
Login(outcome) ==
  /\ pc = "login"
  /\ Outcome(outcome = "ok")
  /\ pc' = CASE outcome = "ok" -> "ps_list"
              [] outcome = "not_ok" -> "auth_failed"
              [] outcome = "raise" -> "error"
  /\ UNCHANGED <<launcher, fetch, call, remote, store, existing_photo_ids, counters, locals,
                 runs, start, requests, stream_new, given_up, dropped, item>>

(* ---------------------------- photostream sweep ------------------------ *)

NotExisting(photo_id) == ~photo_exists(photo_id)

\* mutant: update_photostream returns after its first item
AfterStreamItem_Returns(rest) == "al_list"

\* update_photostream, the for loop: the next item, or the return to comprehensive_update
AfterStreamItem(rest) == IF rest = <<>> THEN "al_list" ELSE "ps_item"

\* get_recent_photostream_photos: the pages fetched before the first failing page,
\* filtered for the ids the index does not hold
get_recent_photostream_photos(ok, n) ==
  /\ pc = "ps_list"
  /\ IF ok THEN n = Len(remote.photostream)
     ELSE n < Len(remote.photostream) \/ n = 0
  /\ Outcome(ok)
  /\ new_photos' = SelectSeq(SubSeq(remote.photostream, 1, n), NotExisting)
  /\ dropped' = IF ~ok /\ n = 0 THEN dropped \cup {"photostream"} ELSE dropped
  /\ pc' = AfterStreamItem(new_photos')
  /\ UNCHANGED <<launcher, fetch, call, remote, store, existing_photo_ids, counters, albums_left, album_id,
                 album_photos, photo, thumbnail_path, photo_exists_l, in_album,
                 runs, start, requests, stream_new, given_up, item>>

\* download_photostream_photo, the existence test
PhotostreamClassify ==
  /\ pc = "ps_item"
  /\ LET photo_id == Head(new_photos) IN
     IF photo_exists(photo_id)
     THEN /\ item' = Skipped("ps_skip", photo_id, "")
          /\ new_photos' = Tail(new_photos)
          /\ pc' = AfterStreamItem(new_photos')
          /\ UNCHANGED photo
     ELSE /\ item' = Started("ps_new", photo_id, "")
          /\ photo' = [id |-> photo_id, payload |-> "listing"]
          /\ pc' = "ps_info"
          /\ UNCHANGED new_photos
  /\ thumbnail_path' = NoPath
  /\ UNCHANGED <<launcher, fetch, call, dropped, remote, store, existing_photo_ids, counters, albums_left, album_id,
                 album_photos, photo_exists_l, in_album,
                 runs, failures, run_failed, start, requests, stream_new, given_up>>

\* the exception handler of update_photostream: the item is given up, the loop goes on
PhotostreamItemRaises ==
  /\ item' = Failed
  /\ given_up' = given_up \cup {photo.id}
  /\ new_photos' = Tail(new_photos)
  /\ pc' = AfterStreamItem(new_photos')

\* get_photo_info in download_photostream_photo
PhotostreamInfo(outcome) ==
  /\ pc = "ps_info"
  /\ requests' = [requests EXCEPT ![photo.id].info = @ + 1]
  /\ Outcome(outcome = "ok")
  /\ CASE outcome = "ok" ->
            /\ photo' = [photo EXCEPT !.payload = "info"]
            /\ pc' = "ps_thumb"
            /\ UNCHANGED <<new_photos, item, given_up>>
       [] outcome = "none" ->
            /\ pc' = "ps_thumb"
            /\ UNCHANGED <<photo, new_photos, item, given_up>>
       [] outcome = "raise" ->
            /\ PhotostreamItemRaises
            /\ UNCHANGED photo
  /\ UNCHANGED <<launcher, fetch, call, dropped, remote, store, existing_photo_ids, counters, albums_left, album_id,
                 album_photos, thumbnail_path, photo_exists_l, in_album,
                 runs, start, stream_new>>

\* download_thumbnail in download_photostream_photo
PhotostreamThumbnail(ok) ==
  /\ pc = "ps_thumb"
  /\ requests' = [requests EXCEPT ![photo.id].thumb = @ + 1]
  /\ Outcome(ok)
  /\ thumbnail_path' = IF ok THEN ThumbFile(photo.id) ELSE NoPath
  /\ pc' = "ps_comments"
  /\ UNCHANGED <<launcher, fetch, call, dropped, remote, store, existing_photo_ids, counters, new_photos, albums_left,
                 album_id, album_photos, photo, photo_exists_l, in_album,
                 runs, start, stream_new, given_up, item>>

CommentRow(photo_id) == [id |-> "c-" \o photo_id, photo_id |-> photo_id]

\* get_photo_comments: the comments of the photo, or none when the request fails
get_photo_comments(photo_id, ok) == ok /\ photo_id \in remote.commented

\* save_comments: nothing is written for an empty list
save_comments(photo_id, has_comments) ==
  IF has_comments THEN InsertOrReplaceComment(comments, CommentRow(photo_id))
  ELSE comments

\* get_photo_comments and save_comments in download_photostream_photo
PhotostreamComments(ok) ==
  /\ pc = "ps_comments"
  /\ requests' = [requests EXCEPT ![photo.id].comments = @ + 1]
  /\ Outcome(ok)
  /\ comments' = save_comments(photo.id, get_photo_comments(photo.id, ok))
  /\ pc' = "ps_save"
  /\ UNCHANGED <<launcher, fetch, call, dropped, remote, photos, photo_albums, albums, existing_photo_ids, counters,
                 locals, runs, start, stream_new, given_up, item>>

\* mutant: the photostream photo is saved through the junction writer, into an album
PhotostreamSave_Linked(ok) ==
  /\ pc = "ps_save"
  /\ Outcome(ok)
  /\ IF ok
     THEN /\ photos' = InsertOrReplacePhoto(photos, PhotoRow(photo, thumbnail_path))
          /\ photo_albums' = InsertOrIgnoreLink(photo_albums, LinkRow(photo.id, "A"))
          /\ pc' = "ps_index"
          /\ UNCHANGED <<new_photos, item, given_up>>
     ELSE /\ PhotostreamItemRaises
          /\ UNCHANGED <<photos, photo_albums>>
  /\ UNCHANGED <<launcher, fetch, call, dropped, remote, albums, comments, existing_photo_ids, counters,
                 albums_left, album_id, album_photos, photo, thumbnail_path,
                 photo_exists_l, in_album, runs, start, requests, stream_new>>

\* save_photo_metadata_standalone in download_photostream_photo
PhotostreamSave(ok) ==
  /\ pc = "ps_save"
  /\ Outcome(ok)
  /\ IF ok
     THEN /\ photos' = InsertOrReplacePhoto(photos, PhotoRow(photo, thumbnail_path))
          /\ pc' = "ps_index"
          /\ UNCHANGED <<new_photos, item, given_up>>
     ELSE /\ PhotostreamItemRaises
          /\ UNCHANGED photos
  /\ UNCHANGED <<launcher, fetch, call, dropped, remote, photo_albums, albums, comments, existing_photo_ids, counters,
                 albums_left, album_id, album_photos, photo, thumbnail_path,
                 photo_exists_l, in_album, runs, start, requests, stream_new>>

\* mutant: the id is not added to the index
PhotostreamIndex_NoAdd ==
  /\ pc = "ps_index"
  /\ photostream_new_count' = photostream_new_count + 1
  /\ new_photos_count' = new_photos_count + 1
  /\ stream_new' = stream_new \cup {photo.id}
  /\ item' = Finished
  /\ new_photos' = Tail(new_photos)
  /\ pc' = AfterStreamItem(new_photos')
  /\ UNCHANGED <<launcher, fetch, call, dropped, remote, store, existing_photo_ids, new_associations_count,
                 skipped_photos_count, albums_left, album_id, album_photos, photo,
                 thumbnail_path, photo_exists_l, in_album, runs, failures, run_failed,
                 start, requests, given_up>>

\* download_photostream_photo, after the persist: index and counters
PhotostreamIndex ==
  /\ pc = "ps_index"
  /\ existing_photo_ids' = existing_photo_ids \cup {photo.id}
  /\ photostream_new_count' = photostream_new_count + 1
  /\ new_photos_count' = new_photos_count + 1
  /\ stream_new' = stream_new \cup {photo.id}
  /\ item' = Finished
  /\ new_photos' = Tail(new_photos)
  /\ pc' = AfterStreamItem(new_photos')
  /\ UNCHANGED <<launcher, fetch, call, dropped, remote, store, new_associations_count, skipped_photos_count,
                 albums_left, album_id, album_photos, photo, thumbnail_path,
                 photo_exists_l, in_album, runs, failures, run_failed, start, requests, given_up>>

(* ---------------------------- album sweep ------------------------------ *)

AfterAlbum(rest) == IF rest = <<>> THEN "done" ELSE "al_photos"

\* get_user_albums in update_albums: the album list, or an exception (a response that is
\* not ok raises too), on which update_albums returns
AlbumList(ok) ==
  /\ pc = "al_list"
  /\ Outcome(ok)
  /\ albums_left' = IF ok THEN remote.albums ELSE <<>>
  /\ dropped' = IF ok THEN dropped ELSE dropped \cup {"albums"}
  /\ pc' = AfterAlbum(albums_left')
  /\ UNCHANGED <<launcher, fetch, call, remote, store, existing_photo_ids, counters, new_photos, album_id,
                 album_photos, photo, thumbnail_path, photo_exists_l, in_album,
                 runs, start, requests, stream_new, given_up, item>>

\* mutant: update_albums stops after the first album
NextAlbum_Stops ==
  /\ albums_left' = <<>>
  /\ pc' = "done"

\* the for loop of update_albums moves to the next album
NextAlbum ==
  /\ albums_left' = Tail(albums_left)
  /\ pc' = AfterAlbum(albums_left')

\* the for loop of update_album_incremental moves to the next photo of the album
NextAlbumPhoto ==
  /\ album_photos' = Tail(album_photos)
  /\ IF album_photos' = <<>> THEN NextAlbum
     ELSE pc' = "al_item" /\ UNCHANGED albums_left

\* mutant: the exception of an album sweep is not caught and ends update_albums
AlbumRaises_Aborts ==
  /\ item' = Failed
  /\ given_up' = given_up \cup {photo.id}
  /\ album_photos' = <<>>
  /\ albums_left' = <<>>
  /\ pc' = "done"

\* the exception handler of update_albums: the rest of the album is given up
AlbumRaises ==
  /\ item' = Failed
  /\ given_up' = given_up \cup {photo.id}
  /\ album_photos' = <<>>
  /\ NextAlbum

\* update_album_incremental up to its loop: get_album_photos (all pages, the pages before
\* a page that is not ok, or an exception) and save_album_metadata
AlbumPhotos(outcome, n) ==
  /\ pc = "al_photos"
  /\ LET album == Head(albums_left)
         listing == remote.album_photos[album]
         fetched == SubSeq(listing, 1, n)
     IN /\ CASE outcome = "ok" -> n = Len(listing)
              [] outcome = "not_ok" -> n < Len(listing) \/ n = 0
              [] outcome = "raise" -> n = 0
        /\ Outcome(outcome = "ok")
        /\ album_id' = album
        /\ IF outcome = "raise"
           THEN /\ album_photos' = <<>>
                /\ NextAlbum
                /\ UNCHANGED albums
           ELSE /\ albums' = InsertOrReplaceAlbum(albums,
                                [id |-> album, photo_count |-> Len(fetched)])
                /\ album_photos' = fetched
                /\ IF fetched = <<>> THEN NextAlbum
                   ELSE pc' = "al_item" /\ UNCHANGED albums_left
  /\ UNCHANGED <<launcher, fetch, call, dropped, remote, photos, photo_albums, comments, existing_photo_ids, counters,
                 new_photos, photo, thumbnail_path, photo_exists_l, in_album,
                 runs, start, requests, stream_new, given_up, item>>

\* download_album_photo, the classification of the item
AlbumClassify ==
  /\ pc = "al_item"
  /\ LET photo_id == Head(album_photos)
         exists == photo_exists(photo_id)
         linked == IF exists THEN photo_in_album(photo_id, album_id) ELSE FALSE
     IN /\ photo_exists_l' = exists
        /\ in_album' = linked
        /\ thumbnail_path' = NoPath
        /\ CASE exists /\ linked ->
                  /\ skipped_photos_count' = skipped_photos_count + 1
                  /\ item' = Skipped("al_skip", photo_id, album_id)
                  /\ NextAlbumPhoto
                  /\ UNCHANGED photo
             [] ~exists ->
                  /\ item' = Started("al_new", photo_id, album_id)
                  /\ photo' = [id |-> photo_id, payload |-> "listing"]
                  /\ pc' = "al_info"
                  /\ UNCHANGED <<skipped_photos_count, album_photos, albums_left>>
             [] exists /\ ~linked ->
                  /\ item' = Started("al_link", photo_id, album_id)
                  /\ photo' = [id |-> photo_id, payload |-> "listing"]
                  /\ pc' = "al_save_photo"
                  /\ UNCHANGED <<skipped_photos_count, album_photos, albums_left>>
  /\ UNCHANGED <<launcher, fetch, call, dropped, remote, store, existing_photo_ids, new_photos_count,
                 new_associations_count, photostream_new_count, new_photos, album_id,
                 runs, failures, run_failed, start, requests, stream_new, given_up>>

\* get_photo_info in download_album_photo
AlbumInfo(outcome) ==
  /\ pc = "al_info"
  /\ requests' = [requests EXCEPT ![photo.id].info = @ + 1]
  /\ Outcome(outcome = "ok")
  /\ CASE outcome = "ok" ->
            /\ photo' = [photo EXCEPT !.payload = "info"]
            /\ pc' = "al_thumb"
            /\ UNCHANGED <<album_photos, albums_left, item, given_up>>
       [] outcome = "none" ->
            /\ pc' = "al_thumb"
            /\ UNCHANGED <<photo, album_photos, albums_left, item, given_up>>
       [] outcome = "raise" ->
            /\ AlbumRaises
            /\ UNCHANGED photo
  /\ UNCHANGED <<launcher, fetch, call, dropped, remote, store, existing_photo_ids, counters, new_photos, album_id,
                 thumbnail_path, photo_exists_l, in_album, runs, start, stream_new>>

\* download_thumbnail in download_album_photo
AlbumThumbnail(ok) ==
  /\ pc = "al_thumb"
  /\ requests' = [requests EXCEPT ![photo.id].thumb = @ + 1]
  /\ Outcome(ok)
  /\ thumbnail_path' = IF ok THEN ThumbFile(photo.id) ELSE NoPath
  /\ pc' = "al_comments"
  /\ UNCHANGED <<launcher, fetch, call, dropped, remote, store, existing_photo_ids, counters, new_photos, albums_left,
                 album_id, album_photos, photo, photo_exists_l, in_album,
                 runs, start, stream_new, given_up, item>>

\* get_photo_comments and save_comments in download_album_photo
AlbumComments(ok) ==
  /\ pc = "al_comments"
  /\ requests' = [requests EXCEPT ![photo.id].comments = @ + 1]
  /\ Outcome(ok)
  /\ comments' = save_comments(photo.id, get_photo_comments(photo.id, ok))
  /\ pc' = "al_index"
  /\ UNCHANGED <<launcher, fetch, call, dropped, remote, photos, photo_albums, albums, existing_photo_ids, counters,
                 locals, runs, start, stream_new, given_up, item>>

\* mutant: the id is not added to the index
AlbumIndex_NoAdd ==
  /\ pc = "al_index"
  /\ new_photos_count' = new_photos_count + 1
  /\ pc' = "al_save_photo"
  /\ UNCHANGED <<launcher, fetch, call, dropped, remote, store, existing_photo_ids, new_associations_count,
                 skipped_photos_count, photostream_new_count, locals, ghosts>>

\* download_album_photo, before the persist: index and counter
AlbumIndex ==
  /\ pc = "al_index"
  /\ existing_photo_ids' = existing_photo_ids \cup {photo.id}
  /\ new_photos_count' = new_photos_count + 1
  /\ pc' = "al_save_photo"
  /\ UNCHANGED <<launcher, fetch, call, dropped, remote, store, new_associations_count, skipped_photos_count,
                 photostream_new_count, locals, ghosts>>

\* mutant: save_photo_metadata_junction writes the link without saving the photo first
AlbumSavePhoto_NotSaved(ok) ==
  /\ pc = "al_save_photo"
  /\ Outcome(ok)
  /\ IF ok
     THEN /\ pc' = "al_save_link"
          /\ UNCHANGED <<album_photos, albums_left, item, given_up>>
     ELSE AlbumRaises
  /\ UNCHANGED <<launcher, fetch, call, dropped, remote, store, existing_photo_ids, counters,
                 new_photos, album_id, photo, thumbnail_path, photo_exists_l, in_album,
                 runs, start, requests, stream_new>>

\* save_photo_metadata_junction, its call of save_photo_metadata_standalone
AlbumSavePhoto(ok) ==
  /\ pc = "al_save_photo"
  /\ Outcome(ok)
  /\ IF ok
     THEN /\ photos' = InsertOrReplacePhoto(photos, PhotoRow(photo, thumbnail_path))
          /\ pc' = "al_save_link"
          /\ UNCHANGED <<album_photos, albums_left, item, given_up>>
     ELSE /\ AlbumRaises
          /\ UNCHANGED photos
  /\ UNCHANGED <<launcher, fetch, call, dropped, remote, photo_albums, albums, comments, existing_photo_ids, counters,
                 new_photos, album_id, photo, thumbnail_path, photo_exists_l, in_album,
                 runs, start, requests, stream_new>>

\* mutant: a link is counted only when the photo existed before the item
AlbumSaveLink_CountsExisting ==
  /\ pc = "al_save_link"
  /\ photo_albums' = InsertOrIgnoreLink(photo_albums, LinkRow(photo.id, album_id))
  /\ new_associations_count' =
       IF photo_exists_l /\ ~in_album THEN new_associations_count + 1
       ELSE new_associations_count
  /\ item' = Finished
  /\ NextAlbumPhoto
  /\ UNCHANGED <<launcher, fetch, call, dropped, remote, photos, albums, comments, existing_photo_ids, new_photos_count,
                 skipped_photos_count, photostream_new_count, new_photos, album_id,
                 photo, thumbnail_path, photo_exists_l, in_album,
                 runs, failures, run_failed, start, requests, stream_new, given_up>>

\* save_photo_metadata_junction, the link insert and its commit; then the association
\* counter of download_album_photo
AlbumSaveLink ==
  /\ pc = "al_save_link"
  /\ photo_albums' = InsertOrIgnoreLink(photo_albums, LinkRow(photo.id, album_id))
  /\ new_associations_count' =
       IF ~in_album THEN new_associations_count + 1 ELSE new_associations_count
  /\ item' = Finished
  /\ NextAlbumPhoto
  /\ UNCHANGED <<launcher, fetch, call, dropped, remote, photos, albums, comments, existing_photo_ids, new_photos_count,
                 skipped_photos_count, photostream_new_count, new_photos, album_id,
                 photo, thumbnail_path, photo_exists_l, in_album,
                 runs, failures, run_failed, start, requests, stream_new, given_up>>

(* ---------------------------- termination ------------------------------ *)

\* the process is terminated; the database keeps what was committed
Crash ==
  /\ pc \notin {"idle"} \cup Exited
  /\ failures < MaxFailures
  /\ failures' = failures + 1
  /\ pc' = "idle"
  /\ existing_photo_ids' = {}
  /\ ResetCounters
  /\ ResetLocals
  /\ run_failed' = FALSE
  /\ start' = NoStart
  /\ requests' = NoRequests
  /\ stream_new' = {}
  /\ given_up' = {}
  /\ dropped' = {}
  /\ item' = NoItem
  /\ UNCHANGED <<launcher, fetch, call, remote, store, runs>>

(* ---------------------------- what a process emits --------------------- *)

\* lines of the standard output, as sequences of words
LineAuthRequired == <<"OAuth", "authentication", "required">>
LineAuthFailed == <<"Authentication", "failed">>
LineError == <<"Error", "during", "update">>
LineSummary == <<"COMPREHENSIVE", "UPDATE", "SUMMARY">>
LineUpdated == <<"Successfully", "updated", "your", "collection!">>
LineUpToDate == <<"Your", "collection", "is", "completely", "up", "to", "date!">>
LineTraceback == <<"Traceback">>

\* comprehensive_update, the end of the summary
SummaryLine ==
  IF new_photos_count > 0 \/ new_associations_count > 0 THEN LineUpdated
  ELSE LineUpToDate

\* the exit status of the process that has exited
returncode ==
  CASE pc = "done" -> 0
    [] pc = "auth_required" -> 2
    [] OTHER -> 1

\* the lines of main and of the summary the process has written to its standard output
stdout ==
  CASE pc = "done" -> {LineSummary, SummaryLine}
    [] pc = "auth_required" -> {LineAuthRequired}
    [] pc = "auth_failed" -> {LineAuthFailed}
    [] pc = "error" -> {LineError}
    [] OTHER -> {}

\* the standard error: the traceback main prints for an exception
stderr == IF pc = "error" THEN {LineTraceback} ELSE {}

(* ---------------------------- the launcher ----------------------------- *)

\* text in output: some line holds the words of text, in a row
In(text, output) ==
  \E line \in output : \E i \in 0..(Len(line) - Len(text)) :
    \A j \in 1..Len(text) : line[i + j] = text[j]

MsgUpToDate == "You're up to date! No new photos found."
MsgUpdated == "Update completed! New photos added."
MsgAuthRedirect == "OAuth authentication required - redirecting to Flickr..."
MsgCompleted == "Update process completed"
MsgAuthRequired == "OAuth authentication required - please complete Flickr authorization"
MsgFailed == "Update failed"

\* run_update, the classification of the result of the child process
run_update_message(code, out, err) ==
  IF code = 0
  THEN IF In(<<"No", "new", "photos", "found">>, out) THEN MsgUpToDate
       ELSE IF In(<<"completed">>, out) THEN MsgUpdated
       ELSE IF In(<<"OAuth", "authentication", "required">>, out) THEN MsgAuthRedirect
       ELSE MsgCompleted
  ELSE IF code = 2 THEN MsgAuthRequired
  ELSE MsgFailed

MsgChecking == "Checking for new photos..."
MsgAuthenticating == "Authenticating with Flickr..."
MsgBusy == "Download already in progress"
MsgNeedAuth == "Authentication required - please run OAuth setup first"
MsgDownloaded == "Download completed successfully!"
MsgDownloadEnded == "Download process completed"
MsgError == "Error"

\* run_download, the classification of the output of the child process
run_download_message(out) ==
  IF In(<<"NEED_AUTH">>, out) THEN MsgNeedAuth
  ELSE IF In(<<"COMPLETE">>, out) THEN MsgDownloaded
  ELSE IF In(<<"ERROR">>, out) THEN MsgError
  ELSE MsgDownloadEnded

\* what the child process of run_update can return: exit status, output and error output
UpdateResults ==
  {[code |-> 0, out |-> {LineSummary, LineUpdated}, err |-> {}],
   [code |-> 0, out |-> {LineSummary, LineUpToDate}, err |-> {}],
   [code |-> 2, out |-> {LineAuthRequired}, err |-> {}],
   [code |-> 1, out |-> {LineAuthFailed}, err |-> {}],
   [code |-> 1, out |-> {LineError}, err |-> {LineTraceback}]}

\* what the script of run_download can print
DownloadResults ==
  {[code |-> 0, out |-> {<<"NEED_AUTH">>}, err |-> {}],
   [code |-> 0, out |-> {<<"DOWNLOADING">>, <<"COMPLETE">>}, err |-> {}],
   [code |-> 0, out |-> {<<"DOWNLOADING">>, <<"ERROR">>}, err |-> {}],
   [code |-> 1, out |-> {}, err |-> {LineTraceback}]}

\* a start request (POST /start_update or /start_download) reaches its request thread;
\* the requests are numbered in the order of their arrival
Receive(r, kind, credentials) ==
  /\ handler[r].pc = "none"
  /\ \A q \in RequestIds : q < r => handler[q].pc # "none"
  /\ handler' = [handler EXCEPT ![r] = [pc |-> "check", kind |-> kind,
                                        credentials |-> credentials, response |-> "none"]]
  /\ UNCHANGED <<download_status, thread, config, updater, fetch, call>>

\* start_update and start_download, the test of the running flag
CheckRunning(r) ==
  /\ handler[r].pc = "check"
  /\ handler' = [handler EXCEPT ![r] =
                   IF download_status.running
                   THEN [@ EXCEPT !.pc = "answered", !.response = MsgBusy]
                   ELSE [@ EXCEPT !.pc = "credentials"]]
  /\ UNCHANGED <<download_status, thread, config, updater, fetch, call>>

\* mutant: the credentials are saved and the thread is created without the test
StartThread_Unchecked(r) ==
  /\ handler[r].pc = "credentials"
  /\ config' = r
  /\ thread' = [thread EXCEPT ![r] = "created"]
  /\ handler' = [handler EXCEPT ![r].pc = "answered", ![r].response = "started"]
  /\ UNCHANGED <<download_status, updater, fetch, call>>

\* start_update and start_download after the test of the running flag: the credentials
\* are tested (all([api_key, api_secret, user_id])) and saved, the background thread is created and the request is answered
StartThread(r) ==
  /\ handler[r].pc = "credentials"
  /\ IF handler[r].credentials
     THEN /\ config' = r
          /\ thread' = [thread EXCEPT ![r] = "created"]
          /\ handler' = [handler EXCEPT ![r].pc = "answered", ![r].response = "started"]
     ELSE /\ handler' = [handler EXCEPT ![r].pc = "answered", ![r].response = "missing"]
          /\ UNCHANGED <<thread, config>>
  /\ UNCHANGED <<download_status, updater, fetch, call>>

\* run_update and run_download, the first statement: the running flag is set and the
\* child process is started
SetRunning(r) ==
  /\ thread[r] = "created"
  /\ download_status' = [running |-> TRUE,
                         message |-> IF handler[r].kind = "update" THEN MsgChecking
                                     ELSE MsgAuthenticating]
  /\ thread' = [thread EXCEPT ![r] = "child"]
  /\ UNCHANGED <<handler, config, updater, fetch, call>>

\* run_update and run_download after the child process has ended: the flag is released
\* with the message of the result
ChildEnds(r, result) ==
  /\ thread[r] = "child"
  /\ result \in (IF handler[r].kind = "update" THEN UpdateResults ELSE DownloadResults)
  /\ download_status' =
       [running |-> FALSE,
        message |-> IF handler[r].kind = "update"
                    THEN run_update_message(result.code, result.out, result.err)
                    ELSE run_download_message(result.out)]
  /\ thread' = [thread EXCEPT ![r] = "finished"]
  /\ UNCHANGED <<handler, config, updater, fetch, call>>

\* mutant: the exception ends the thread and the status stays as it is
ChildRaises_KeepsFlag(r) ==
  /\ thread[r] = "child"
  /\ thread' = [thread EXCEPT ![r] = "finished"]
  /\ UNCHANGED <<download_status, handler, config, updater, fetch, call>>

\* run_update and run_download, the exception handler: the child process could not be
\* run
ChildRaises(r) ==
  /\ thread[r] = "child"
  /\ download_status' = [running |-> FALSE, message |-> MsgError]
  /\ thread' = [thread EXCEPT ![r] = "finished"]
  /\ UNCHANGED <<handler, config, updater, fetch, call>>

\* GET /download_status: the answer is the status as it is
status_query == download_status

(* ---------------------------- the collection fetches ------------------- *)

\* the number of items a page holds
PageSizes == {0, 1, 2}

\* the items of page k: the item i of the page is <<k, i>>
PageItems(k, count) == [i \in 1..count |-> <<k, i>>]

\* the answer to the request of a page: its stat is ok, it is fail (a response that does
\* not report success), or the request raises (an HTTP or transport error)
Responses == [stat : {"ok", "fail", "raise"}, count : PageSizes]

\* a fetch of kind "albums" (get_user_albums), "album_photos" (get_album_photos) or
\* "photostream" (the loop of get_recent_photostream_photos) that has not requested a
\* page yet; total is the page count every response reports
FetchInputs ==
  [kind : {"albums", "album_photos", "photostream"},
   responses : [1..MaxPages -> Responses],
   total : 0..MaxPages,
   page : {1}, items : {<<>>}, asked : {<<>>}, status : {"running"}]

\* the request of the page and the answer to it
Asked == [fetch EXCEPT !.asked = Append(@, fetch.page)]
Answer == fetch.responses[fetch.page]

\* the page was added to the result: the loop ends when the page number has reached the
\* page count, and goes on with the next page otherwise
AfterPage(f) ==
  IF f.page >= f.total THEN [f EXCEPT !.status = "returned"]
  ELSE [f EXCEPT !.page = @ + 1]

\* mutant: the result is the last page
AlbumListPage_Replaces ==
  /\ fetch.kind = "albums" /\ fetch.status = "running"
  /\ fetch' = IF Answer.stat = "ok"
              THEN AfterPage([Asked EXCEPT !.items = PageItems(fetch.page, Answer.count)])
              ELSE [Asked EXCEPT !.status = "raised"]
  /\ UNCHANGED <<updater, launcher, call>>

\* get_user_albums, one turn of its loop: api_call raises for an HTTP or transport error
\* and the function raises for a stat that is not ok; the caller gets the exception
AlbumListPage ==
  /\ fetch.kind = "albums" /\ fetch.status = "running"
  /\ fetch' = IF Answer.stat = "ok"
              THEN AfterPage([Asked EXCEPT !.items = @ \o PageItems(fetch.page, Answer.count)])
              ELSE [Asked EXCEPT !.status = "raised"]
  /\ UNCHANGED <<updater, launcher, call>>

\* get_album_photos, one turn of its loop: api_call raises for an HTTP or transport
\* error; the loop ends on a stat that is not ok and the photos fetched are returned
AlbumPhotosPage ==
  /\ fetch.kind = "album_photos" /\ fetch.status = "running"
  /\ fetch' = CASE Answer.stat = "ok" ->
                    AfterPage([Asked EXCEPT !.items = @ \o PageItems(fetch.page, Answer.count)])
                [] Answer.stat = "fail" -> [Asked EXCEPT !.status = "returned"]
                [] Answer.stat = "raise" -> [Asked EXCEPT !.status = "raised"]
  /\ UNCHANGED <<updater, launcher, call>>

\* get_recent_photostream_photos, one turn of its loop: the loop ends on a stat that is
\* not ok, on an exception and on a page without photos
PhotostreamPage ==
  /\ fetch.kind = "photostream" /\ fetch.status = "running"
  /\ fetch' = IF Answer.stat = "ok" /\ Answer.count > 0
              THEN AfterPage([Asked EXCEPT !.items = @ \o PageItems(fetch.page, Answer.count)])
              ELSE [Asked EXCEPT !.status = "returned"]
  /\ UNCHANGED <<updater, launcher, call>>

(* ---------------------------- specification ---------------------------- *)

Next ==
  \/ \E ok \in BOOLEAN : StartRun(ok)
  \/ \E has_token \in BOOLEAN : load_token(has_token)
  \/ \E outcome \in {"ok", "not_ok", "raise"} : Login(outcome)
  \/ \E ok \in BOOLEAN, n \in 0..MaxRemoteItems : get_recent_photostream_photos(ok, n)
  \/ PhotostreamClassify
  \/ \E outcome \in {"ok", "none", "raise"} : PhotostreamInfo(outcome)
  \/ \E ok \in BOOLEAN : PhotostreamThumbnail(ok)
  \/ \E ok \in BOOLEAN : PhotostreamComments(ok)
  \/ \E ok \in BOOLEAN : PhotostreamSave(ok)
  \/ PhotostreamIndex
  \/ \E ok \in BOOLEAN : AlbumList(ok)
  \/ \E outcome \in {"ok", "not_ok", "raise"}, n \in 0..MaxRemoteItems : AlbumPhotos(outcome, n)
  \/ AlbumClassify
  \/ \E outcome \in {"ok", "none", "raise"} : AlbumInfo(outcome)
  \/ \E ok \in BOOLEAN : AlbumThumbnail(ok)
  \/ \E ok \in BOOLEAN : AlbumComments(ok)
  \/ AlbumIndex
  \/ \E ok \in BOOLEAN : AlbumSavePhoto(ok)
  \/ AlbumSaveLink
  \/ Crash

Spec == Init /\ [][Next]_vars

\* between two processes the owner removes a photo from the photostream or from an album:
\* the listing of the remote service loses its last item
RemoteUnlists ==
  /\ pc \in Exited
  /\ \/ /\ remote.photostream # <<>>
        /\ remote' = [remote EXCEPT !.photostream = SubSeq(@, 1, Len(@) - 1)]
     \/ \E a \in AlbumIds :
          /\ remote.album_photos[a] # <<>>
          /\ remote' = [remote EXCEPT !.album_photos[a] = SubSeq(@, 1, Len(@) - 1)]
  /\ UNCHANGED <<launcher, fetch, call, store, pc, existing_photo_ids, counters, locals, ghosts>>

\* the updater and a remote collection that shrinks between the processes
UnlistingNext == Next \/ RemoteUnlists

UnlistingSpec == Init /\ [][UnlistingNext]_vars

\* the launcher alone: no updater process of the model runs, the result of a child
\* process is one of UpdateResults and DownloadResults
NoRemote == [photostream |-> <<>>, albums |-> <<"A", "B">>, commented |-> {"p1"},
             album_photos |-> [a \in AlbumIds |-> <<>>]]

LauncherInit == Init /\ remote = NoRemote

LauncherNext ==
  \/ \E r \in RequestIds, kind \in {"update", "download"}, credentials \in BOOLEAN :
       Receive(r, kind, credentials)
  \/ \E r \in RequestIds : CheckRunning(r)
  \/ \E r \in RequestIds : StartThread(r)
  \/ \E r \in RequestIds : SetRunning(r)
  \/ \E r \in RequestIds : \E result \in UpdateResults \cup DownloadResults :
       ChildEnds(r, result)
  \/ \E r \in RequestIds : ChildRaises(r)

LauncherSpec == LauncherInit /\ [][LauncherNext]_vars

\* a background thread that was started runs, and its child process terminates
ThreadRuns(r) ==
  \/ SetRunning(r)
  \/ \E result \in UpdateResults \cup DownloadResults : ChildEnds(r, result)
  \/ ChildRaises(r)

\* the launcher with background threads that run and child processes that terminate
LauncherFairSpec ==
  LauncherInit /\ [][LauncherNext]_vars /\ \A r \in RequestIds : WF_vars(ThreadRuns(r))

\* a collection fetch alone, for every answer of the remote service to its pages
FetchInit ==
  /\ remote = NoRemote
  /\ NoProcess
  /\ LauncherIdle
  /\ fetch \in FetchInputs
  /\ call = NoCall

FetchNext ==
  \/ AlbumListPage
  \/ AlbumPhotosPage
  \/ PhotostreamPage

\* a fetch that can request a page does request it
FetchSpec == FetchInit /\ [][FetchNext]_vars /\ WF_vars(FetchNext)

(* ------------------ the request signer (oauth_downloader.py) ------------ *)

\* a string is the tuple of its characters; None is the absent string
None == <<"None">>

MaxParams == 2
MaxCalls == 2

\* the characters of the strings, in code point order
Alphabet ==
  <<" ", "%", "&", "-", ".", "/", "0", "1", "2", "3", "4", "5", "6", "7", "8", "9",
    ":", "=", "A", "B", "C", "D", "E", "F", "G", "H", "I", "J", "K", "L", "M", "N",
    "O", "P", "Q", "R", "S", "T", "U", "V", "W", "X", "Y", "Z", "_", "a", "b", "c",
    "d", "e", "f", "g", "h", "i", "j", "k", "l", "m", "n", "o", "p", "q", "r", "s",
    "t", "u", "v", "w", "x", "y", "z", "~">>

CodeOf == [c \in Range(Alphabet) |-> CHOOSE i \in DOMAIN Alphabet : Alphabet[i] = c]

Code(c) == CodeOf[c]

Digits == <<"0", "1", "2", "3", "4", "5", "6", "7", "8", "9">>
UpperCase == <<"A", "B", "C", "D", "E", "F", "G", "H", "I", "J", "K", "L", "M", "N", "O", "P", "Q", "R", "S", "T", "U", "V", "W", "X", "Y", "Z">>
LowerCase == <<"a", "b", "c", "d", "e", "f", "g", "h", "i", "j", "k", "l", "m", "n", "o", "p", "q", "r", "s", "t", "u", "v", "w", "x", "y", "z">>

\* str < str of Python: the first differing character decides by its code point, a
\* proper prefix is the smaller string
RECURSIVE LessFrom(_, _, _)
LessFrom(a, b, i) ==
  IF i > Len(b) THEN FALSE
  ELSE IF i > Len(a) THEN TRUE
  ELSE IF a[i] = b[i] THEN LessFrom(a, b, i + 1)
  ELSE Code(a[i]) < Code(b[i])

LessStr(a, b) == LessFrom(a, b, 1)

\* tuple < tuple of Python on the (key, value) items of a dictionary
LessItem(x, y) == LessStr(x[1], y[1]) \/ (x[1] = y[1] /\ LessStr(x[2], y[2]))

RECURSIVE Insert(_, _)
Insert(x, s) ==
  IF s = <<>> THEN <<x>>
  ELSE IF LessItem(x, Head(s)) THEN <<x>> \o s
  ELSE <<Head(s)>> \o Insert(x, Tail(s))

\* the items as they were supplied
Unsorted(items) == items

\* sorted(params.items())
RECURSIVE sorted(_)
sorted(items) ==
  IF items = <<>> THEN <<>> ELSE Insert(Head(items), sorted(Tail(items)))

\* str.upper()
ToUpper == [c \in Range(Alphabet) |->
              IF c \in Range(LowerCase)
              THEN UpperCase[CHOOSE k \in DOMAIN LowerCase : LowerCase[k] = c]
              ELSE c]

upper(s) == [i \in DOMAIN s |-> ToUpper[s[i]]]

\* the strings parts[lo] .. parts[hi] one after the other
RECURSIVE Concat(_, _, _)
Concat(parts, lo, hi) ==
  IF lo > hi THEN <<>>
  ELSE IF lo = hi THEN parts[lo]
  ELSE Concat(parts, lo, (lo + hi) \div 2) \o Concat(parts, (lo + hi) \div 2 + 1, hi)

\* the two hexadecimal digits of the code point of a reserved character
Hex(c) ==
  CASE c = " " -> <<"2", "0">>
    [] c = "%" -> <<"2", "5">>
    [] c = "&" -> <<"2", "6">>
    [] c = "/" -> <<"2", "F">>
    [] c = ":" -> <<"3", "A">>
    [] c = "=" -> <<"3", "D">>

\* the characters that quote never escapes
Unreserved ==
  Range(LowerCase) \cup Range(UpperCase) \cup Range(Digits) \cup {"_", ".", "-", "~"}

\* urllib.parse.quote(s, safe='')
quote(s) ==
  Concat([i \in DOMAIN s |-> IF s[i] \in Unreserved THEN <<s[i]>> ELSE <<"%">> \o Hex(s[i])],
         1, Len(s))

\* sep.join(parts)
join(sep, parts) ==
  Concat([i \in 1..(2 * Len(parts) - 1) |-> IF i % 2 = 1 THEN parts[(i + 1) \div 2] ELSE sep],
         1, 2 * Len(parts) - 1)

\* str(n) of a natural number
RECURSIVE str(_)
str(n) == IF n < 10 THEN <<Digits[n + 1]>> ELSE str(n \div 10) \o <<Digits[(n % 10) + 1]>>

\* the digest is a function of the key and the message, and so is its encoding: distinct
\* arguments are kept distinct
hmac_sha1(key, msg) == <<"hmac-sha1", key, msg>>

b64encode(digest) == <<"base64", digest>>

normalized_params(params) ==
  LET items == sorted(params)
  IN join(<<"&">>, [i \in DOMAIN items |-> items[i][1] \o <<"=">> \o items[i][2]])

signature_base(method, url, params) ==
  upper(method) \o <<"&">> \o quote(url) \o <<"&">> \o quote(normalized_params(params))

signing_key(self) ==
  quote(self.api_secret) \o <<"&">>
    \o quote(IF self.oauth_token_secret = None THEN <<>> ELSE self.oauth_token_secret)

\* a signature that takes the time of the call into the signed string
generate_signature_Timestamped(self, method, url, params) ==
  b64encode(hmac_sha1(signing_key(self),
                      signature_base(method, url, params) \o str(call.clock)))

generate_signature(self, method, url, params) ==
  b64encode(hmac_sha1(signing_key(self), signature_base(method, url, params)))

\* the keys of a dictionary, and {**a, **b}: the keys of a keep their place and take
\* the value of b, the other keys of b follow
Keys(d) == {d[i][1] : i \in DOMAIN d}

Get(d, k) == d[CHOOSE i \in DOMAIN d : d[i][1] = k][2]

Merge(a, b) ==
  [i \in DOMAIN a |-> IF a[i][1] \in Keys(b) THEN <<a[i][1], Get(b, a[i][1])>> ELSE a[i]]
    \o SelectSeq(b, LAMBDA x : x[1] \notin Keys(a))

oauth_params(self, clock) ==
  << <<<<"o", "a", "u", "t", "h", "_", "c", "o", "n", "s", "u", "m", "e", "r", "_", "k", "e", "y">>, self.api_key>>,
     <<<<"o", "a", "u", "t", "h", "_", "n", "o", "n", "c", "e">>, str(clock)>>,
     <<<<"o", "a", "u", "t", "h", "_", "s", "i", "g", "n", "a", "t", "u", "r", "e", "_", "m", "e", "t", "h", "o", "d">>, <<"H", "M", "A", "C", "-", "S", "H", "A", "1">>>>,
     <<<<"o", "a", "u", "t", "h", "_", "t", "i", "m", "e", "s", "t", "a", "m", "p">>, str(clock)>>,
     <<<<"o", "a", "u", "t", "h", "_", "v", "e", "r", "s", "i", "o", "n">>, <<"1", ".", "0">>>> >>
    \o (IF self.oauth_token \notin {None, <<>>}
        THEN << <<<<"o", "a", "u", "t", "h", "_", "t", "o", "k", "e", "n">>, self.oauth_token>> >> ELSE <<>>)

\* the dictionaries of at most n items over the keys K and the values V
Dicts(K, V, n) ==
  {d \in SeqsUpTo(K \X V, n) : \A i, j \in DOMAIN d : d[i][1] = d[j][1] => i = j}

ParamKeys == {<<"p", "a", "g", "e">>, <<"P", "a", "g", "e">>, <<"p", "a">>}
ParamValues == {<<"1">>, <<"=", " ">>}

\* a downloader as __init__ leaves it, without a token, and as load_token leaves it
Selves ==
  {[api_key |-> <<"k">>, api_secret |-> <<"s", "&", "p">>,
    oauth_token |-> None, oauth_token_secret |-> None],
   [api_key |-> <<"k">>, api_secret |-> <<"s", "&", "p">>,
    oauth_token |-> <<"t">>, oauth_token_secret |-> <<"x", "/", "y">>]}

SignInputs ==
  [op : {"sign"}, self : Selves, method : {<<"g", "e", "t">>, <<"P", "o", "s", "t">>},
   url : {<<"h", ":", "/", "/", "a", ".", "b", "/", "%">>}, params : Dicts(ParamKeys, ParamValues, MaxParams),
   clock : {0}, signed : {<<>>}]

Signed(kind, params, signature) ==
  [call EXCEPT !.signed = Append(@, [kind |-> kind, params |-> params, clock |-> call.clock,
                                     signature |-> signature])]

\* a dictionary of the same items, built in the opposite order
Reversed(d) == [i \in DOMAIN d |-> d[Len(d) + 1 - i]]

\* generate_signature is called with the parameters, supplied in one order or the other
Sign ==
  /\ call.op = "sign"
  /\ Len(call.signed) < MaxCalls
  /\ \E params \in {call.params, Reversed(call.params)} :
       call' = Signed("generate_signature", params,
                      generate_signature(call.self, call.method, call.url, params))
  /\ UNCHANGED <<updater, launcher, fetch>>

\* oauth_request adds the parameters of the protocol and signs all of them
oauth_request ==
  /\ call.op = "sign"
  /\ Len(call.signed) < MaxCalls
  /\ LET all_params == Merge(call.params, oauth_params(call.self, call.clock))
     IN call' = Signed("oauth_request", all_params,
                       generate_signature(call.self, call.method, call.url, all_params))
  /\ UNCHANGED <<updater, launcher, fetch>>

\* time.time() moves on after a call
Tick ==
  /\ call.op = "sign"
  /\ call.clock < Len(call.signed)
  /\ call' = [call EXCEPT !.clock = @ + 1]
  /\ UNCHANGED <<updater, launcher, fetch>>

\* the signer alone, for every method, URL, parameters and secrets of SignInputs
SignInit ==
  /\ remote = NoRemote
  /\ NoProcess
  /\ LauncherIdle
  /\ fetch = NoFetch
  /\ call \in SignInputs

SignNext ==
  \/ Sign
  \/ oauth_request
  \/ Tick

SignSpec == SignInit /\ [][SignNext]_vars

(* --------- the fields of a photo row (save_photo_metadata) ------------- *)

MaxElements == 2

\* the values of a remote payload: a string, a number, null, a mapping (its items),
\* a list (its elements); Absent stands for a key that the payload does not have
PyStr(s) == [type |-> "str", v |-> s]
PyInt(n) == [type |-> "int", v |-> n]
PyNone == [type |-> "NoneType", v |-> <<>>]
PyDict(items) == [type |-> "dict", v |-> items]
PyList(elements) == [type |-> "list", v |-> elements]
Absent == [type |-> "absent", v |-> <<>>]

\* repr(x) of a string or a number
repr(x) == IF x.type = "str" THEN <<"'">> \o x.v \o <<"'">> ELSE str(x.v)

\* str(x)
py_str(x) ==
  CASE x.type = "str" -> x
    [] x.type = "int" -> PyStr(str(x.v))
    [] x.type = "NoneType" -> PyStr(<<"N", "o", "n", "e">>)
    [] x.type = "list" ->
         PyStr(<<"[">> \o join(<<",", " ">>, [i \in DOMAIN x.v |-> repr(x.v[i])]) \o <<"]">>)

\* d.get(key, default)
get(d, key, default) ==
  IF \E i \in DOMAIN d.v : d.v[i][1] = key
  THEN d.v[CHOOSE i \in DOMAIN d.v : d.v[i][1] = key][2]
  ELSE default

tags(photo_data) ==
  LET tags_data == photo_data.tags
  IN IF tags_data = Absent THEN PyStr(<<>>)
     ELSE IF tags_data.type = "dict" THEN get(tags_data, "_content", PyStr(<<>>))
     ELSE IF tags_data.type = "list"
       THEN PyStr(join(<<",", " ">>, [i \in DOMAIN tags_data.v |-> py_str(tags_data.v[i]).v]))
     ELSE py_str(tags_data)

description(photo_data) ==
  IF photo_data.description = Absent THEN PyStr(<<>>)
  ELSE IF photo_data.description.type = "dict"
    THEN get(photo_data.description, "_content", PyStr(<<>>))
  ELSE py_str(photo_data.description)

title(photo_data) ==
  IF photo_data.title = Absent THEN PyStr(<<>>)
  ELSE IF photo_data.title.type = "dict"
    THEN get(photo_data.title, "_content", PyStr(<<>>))
  ELSE py_str(photo_data.title)

\* the values that sqlite3 binds to a parameter of a statement; it raises on the others
Bindable(x) == x.type \in {"str", "int", "NoneType"}

\* cursor.execute(INSERT OR REPLACE INTO photos ...) with the normalized fields
execute(by, photo_data) ==
  LET row == [tags |-> tags(photo_data), title |-> title(photo_data),
              description |-> description(photo_data)]
  IN IF \A f \in DOMAIN row : Bindable(row[f])
     THEN [status |-> "saved", by |-> by, row |-> row]
     ELSE [status |-> "raised", by |-> by, row |-> [f \in DOMAIN row |-> Absent]]

Elements == {PyStr(<<"a">>), PyInt(1)}

Contents == {PyStr(<<>>), PyStr(<<"b">>), PyNone, PyList(<<PyStr(<<"a">>)>>)}

PayloadValues ==
  {PyStr(<<>>), PyStr(<<"a", " ", "b">>), PyInt(1), PyNone, PyDict(<<>>), PyDict(<< <<"raw", PyStr(<<"a">>)>> >>)}
    \cup {PyDict(<< <<"_content", c>> >>) : c \in Contents}
    \cup {PyList(e) : e \in SeqsUpTo(Elements, MaxElements)}

PersistInputs ==
  [op : {"persist"},
   photo_data : [tags : PayloadValues \cup {Absent}, title : PayloadValues \cup {Absent},
                 description : PayloadValues \cup {Absent}],
   result : {[status |-> "none"]}]

\* ComprehensiveFlickrUpdater.save_photo_metadata_standalone
save_photo_metadata_standalone ==
  /\ call.op = "persist"
  /\ call.result.status = "none"
  /\ call' = [call EXCEPT !.result = execute("save_photo_metadata_standalone", call.photo_data)]
  /\ UNCHANGED <<updater, launcher, fetch>>

\* FlickrDownloaderOAuth.save_photo_metadata
save_photo_metadata ==
  /\ call.op = "persist"
  /\ call.result.status = "none"
  /\ call' = [call EXCEPT !.result = execute("save_photo_metadata", call.photo_data)]
  /\ UNCHANGED <<updater, launcher, fetch>>

\* one persist of a photo, for every shape of its tags, title and description
PersistInit ==
  /\ remote = NoRemote
  /\ NoProcess
  /\ LauncherIdle
  /\ fetch = NoFetch
  /\ call \in PersistInputs

PersistNext ==
  \/ save_photo_metadata_standalone
  \/ save_photo_metadata

PersistSpec == PersistInit /\ [][PersistNext]_vars

(* ------------------- the browser's queries (server.py) ------------------ *)

DefaultLimit == 1000

\* int(text) of a text of one character: its digit, or nothing when int raises
int(text) ==
  IF text \in Range(Digits)
  THEN <<(CHOOSE k \in DOMAIN Digits : Digits[k] = text) - 1>>
  ELSE <<>>

\* the sequences that hold every row of a set once and no row before(y, x) after x
Orderings(rows, before(_, _)) ==
  {s \in [1..Cardinality(rows) -> rows] :
     /\ \A i, j \in DOMAIN s : s[i] = s[j] => i = j
     /\ \A i, j \in DOMAIN s : i < j => ~before(s[j], s[i])}

\* mutant: the count is the one stored in the album row
photo_count_Stored(db, a) == a.photo_count

\* COALESCE(pa.photo_count, 0): the COUNT(*) of the group of the album in photo_albums
photo_count(db, a) == Cardinality({l \in db.photo_albums : l.album_id = a.id})

\* EnhancedFlickrServer.get_albums: the lists the query can return, ORDER BY a.title
get_albums(db) ==
  Orderings({[id |-> a.id, title |-> a.title, stored_photo_count |-> a.photo_count,
              photo_count |-> photo_count(db, a)] : a \in db.albums},
            LAMBDA x, y : LessStr(x.title, y.title))

\* LIMIT ? OFFSET ? of a list of rows; limit is <<>> for None
Limited(rows, limit, offset) ==
  IF limit = <<>> THEN rows
  ELSE IF offset >= Len(rows) THEN <<>>
  ELSE SubSeq(rows, offset + 1,
              IF offset + limit[1] < Len(rows) THEN offset + limit[1] ELSE Len(rows))

\* EnhancedFlickrServer.get_photos without a search term: the lists the query can
\* return, ORDER BY date_taken DESC; album is "" for a call that gives no album_id
get_photos(db, album, limit, offset) ==
  LET joined == IF album # ""
                THEN {<<p, pa>> \in db.photos \X db.photo_albums :
                        p.id = pa.photo_id /\ pa.album_id = album}
                ELSE {<<p, p>> : p \in db.photos}
  IN {Limited([i \in DOMAIN s |-> s[i][1]], limit, offset) :
        s \in Orderings(joined, LAMBDA x, y : LessStr(y[1].date_taken, x[1].date_taken))}

\* request.args.get(key, default)
args_get(args, key, default) == IF key \in DOMAIN args THEN args[key] ELSE default

\* mutant: the limit of the request, or the default one, also for an album
limit_Always(args) ==
  IF "limit" \in DOMAIN args THEN int(args["limit"]) ELSE <<DefaultLimit>>

\* the limit the route passes on: None for an album, else int(limit or 1000)
limit(args) ==
  IF args_get(args, "album_id", "") # "" THEN <<>>
  ELSE IF "limit" \in DOMAIN args THEN int(args["limit"]) ELSE <<DefaultLimit>>

\* the offset the route passes on: 0 for an album, else int(offset or 0)
offset(args) ==
  IF args_get(args, "album_id", "") # "" THEN <<0>>
  ELSE IF "offset" \in DOMAIN args THEN int(args["offset"]) ELSE <<0>>

Dates == {<<"1">>, <<"2">>}
Titles == {<<"a">>, <<"B">>}

UniqueIds(table) == \A r, q \in table : r.id = q.id => r = q

\* the databases: a link may name a photo or an album that has no row, and the stored
\* photo_count of an album is not the number of its links
Databases ==
  [photos : {t \in SUBSET [id : PhotoIds, date_taken : Dates] : UniqueIds(t)},
   albums : {t \in SUBSET [id : AlbumIds, title : Titles, photo_count : {0, 2}] :
               UniqueIds(t)},
   photo_albums : SUBSET [photo_id : PhotoIds, album_id : AlbumIds,
                          is_primary : {1}, date_added : {0}]]

NoArgs == [route |-> "none", args |-> <<>>]
NoResponse == [status |-> 0, body |-> <<>>]

ServerInputs == [op : {"server"}, db : Databases, request : {NoArgs}, response : {NoResponse}]

\* the query strings of GET /api/photos: each parameter is given or not, the album is
\* one with rows, one without, or the empty text, a number is a digit or no number
PhotoArgs ==
  {args \in UNION {[keys -> {"", "A", "B", "X", "1", "x"}] :
                     keys \in SUBSET {"album_id", "limit", "offset"}} :
     /\ "album_id" \in DOMAIN args => args["album_id"] \in {"", "A", "B", "X"}
     /\ "limit" \in DOMAIN args => args["limit"] \in {"1", "x"}
     /\ "offset" \in DOMAIN args => args["offset"] \in {"1", "x"}}

\* int(...) of the limit or of the offset raises: the route answers with the error
int_raises(args) ==
  /\ args_get(args, "album_id", "") = ""
  /\ \/ "limit" \in DOMAIN args /\ int(args["limit"]) = <<>>
     \/ "offset" \in DOMAIN args /\ int(args["offset"]) = <<>>

\* GET /api/albums
api_albums ==
  /\ call.op = "server"
  /\ call.request.route = "none"
  /\ \E albums_l \in get_albums(call.db) :
       call' = [call EXCEPT !.request = [route |-> "/api/albums", args |-> <<>>],
                            !.response = [status |-> 200, body |-> albums_l]]
  /\ UNCHANGED <<updater, launcher, fetch>>

\* GET /api/photos
api_photos ==
  /\ call.op = "server"
  /\ call.request.route = "none"
  /\ \E args \in PhotoArgs :
       /\ IF int_raises(args)
          THEN call' = [call EXCEPT !.request = [route |-> "/api/photos", args |-> args],
                                    !.response = [status |-> 500, body |-> <<>>]]
          ELSE \E photos_l \in get_photos(call.db, args_get(args, "album_id", ""),
                                          limit(args), offset(args)[1]) :
                 call' = [call EXCEPT !.request = [route |-> "/api/photos", args |-> args],
                                      !.response = [status |-> 200, body |-> photos_l]]
  /\ UNCHANGED <<updater, launcher, fetch>>

\* the two queries of the browser, for every database of Databases
ServerInit ==
  /\ remote = NoRemote
  /\ NoProcess
  /\ LauncherIdle
  /\ fetch = NoFetch
  /\ call \in ServerInputs

ServerNext ==
  \/ api_albums
  \/ api_photos

ServerSpec == ServerInit /\ [][ServerNext]_vars

(* ---------------------------- claims ----------------------------------- *)

\* the (photo, album) pairs of the remote album listings
RemoteAlbumPairs ==
  UNION {{<<p, a>> : p \in Range(remote.album_photos[a])} : a \in Range(remote.albums)}

\* counters now minus the counters before the item of the variable item:
\* <<new_photos, new_associations, skipped_photos, photostream_new>>
Delta == [i \in 1..4 |-> counters[i] - item.base[i]]

StreamPositions == {"ps_list", "ps_item", "ps_info", "ps_thumb", "ps_comments", "ps_save",
                    "ps_index"}
AlbumItemPositions == {"al_item", "al_info", "al_thumb", "al_comments", "al_index",
                       "al_save_photo", "al_save_link"}

PhotoRows(photo_id) == {r \in photos : r.id = photo_id}

\* number of link rows of the pair
LinkCopies(photo_id, album) ==
  LET rows == {r \in BagToSet(photo_albums) : r.photo_id = photo_id /\ r.album_id = album}
  IN IF rows = {} THEN 0
     ELSE IF Cardinality(rows) = 1 THEN CopiesIn(CHOOSE r \in rows : TRUE, photo_albums)
     ELSE 2

\* C1: a run that ends without a failure, started after a run that ended without a
\* failure (start.clean), reports no new photo and no new association and leaves the
\* stored photo ids and links as the earlier run left them
C1_Idempotence ==
  (pc = "done" /\ ~run_failed /\ start.clean) =>
    /\ new_photos_count = 0
    /\ new_associations_count = 0
    /\ StoredIds = start.ids
    /\ StoredLinks = start.links

\* a second run has ended without failure and has skipped the linked items
C1_Witness ==
  /\ pc = "done" /\ ~run_failed /\ start.clean
  /\ start.links # {}
  /\ skipped_photos_count > 0

\* C2: after a run without a failure every photo of every remote album listing has a
\* photo row and a link row to that album; from an empty store, with one album listing
\* two photos, the run reports 2 new photos and 2 new associations
C2_Completeness ==
  (pc = "done" /\ ~run_failed) =>
    /\ \A pa \in RemoteAlbumPairs : pa[1] \in StoredIds /\ pa \in StoredLinks
    /\ (/\ start.ids = {}
        /\ Len(remote.album_photos["A"]) = 2
        /\ remote.album_photos["A"][1] # remote.album_photos["A"][2]
        /\ remote.album_photos["B"] = <<>>)
       => (new_photos_count = 2 /\ new_associations_count = 2)

\* the scenario: an empty store, one album listing p1 and p2
C2_Witness ==
  /\ pc = "done" /\ ~run_failed /\ start.ids = {}
  /\ remote.album_photos["A"] = <<"p1", "p2">>
  /\ remote.album_photos["B"] = <<>>
  /\ remote.photostream = <<>>
  /\ StoredLinks = {<<"p1", "A">>, <<"p2", "A">>}
  /\ new_photos_count = 2

C3_LinkHasPhoto == \A r \in BagToSet(photo_albums) : r.photo_id \in StoredIds

C3_PhotoCommittedFirst ==
  \A r \in BagToSet(photo_albums') : r \in BagToSet(photo_albums) \/ r.photo_id \in StoredIds

\* C3: every link row has a photo row with the same photo_id, in every state (also
\* between two commits and after a termination), and a link row is committed only when
\* that photo row is already in storage
C3_PhotoBeforeLink == []C3_LinkHasPhoto /\ [][C3_PhotoCommittedFirst]_vars

\* the process was terminated between the photo commit and the link commit of an album item
C3_Witness ==
  /\ pc = "idle" /\ failures = 1 /\ runs = 1
  /\ remote.photostream = <<>>
  /\ photos # {}
  /\ photo_albums = EmptyBag

\* C4: the store holds at most one link row for each (photo_id, album_id) pair
C4_NoDuplicateLinks == \A p \in PhotoIds, a \in AlbumIds : LinkCopies(p, a) <= 1

\* a run has inserted links for pairs that were all linked already, one of them listed twice
C4_Witness ==
  /\ pc = "done" /\ runs = 2 /\ start.clean
  /\ new_associations_count > 0
  /\ StoredLinks = start.links
  /\ \E a \in AlbumIds : Len(remote.album_photos[a]) = 2
                          /\ remote.album_photos[a][1] = remote.album_photos[a][2]

C5_State ==
  /\ (item.kind = "al_new" /\ item.status # "none") => item.id \notin stream_new
  /\ (item.kind = "al_link" /\ item.status = "done" /\ item.id \in stream_new) =>
       /\ Cardinality(PhotoRows(item.id)) = 1
       /\ LinkCopies(item.id, item.album) = 1
       /\ Delta = <<0, 1, 0, 0>>

C5_Step ==
  (pc \in AlbumItemPositions /\ pc' # "idle" /\ Head(album_photos) \in stream_new) =>
    /\ requests' = requests
    /\ new_photos_count' = new_photos_count

\* C5: a photo persisted by the photostream sweep of a run and then met in an album sweep
\* of the run is never classified as new; when its item completes, it has one photo row
\* and one link to the album, new_associations_count has grown by 1 and
\* new_photos_count has not grown; while the item is processed no request is made
C5_CrossSweepIdentity == []C5_State /\ [][C5_Step]_vars

\* the album item of a photo of the photostream sweep has completed
C5_Witness ==
  /\ item.kind = "al_link" /\ item.status = "done"
  /\ item.id \in stream_new
  /\ new_associations_count = 1

C6_Step ==
  (item.kind = "al_link" /\ item.status = "active" /\ pc' # "idle") =>
    /\ photos' = photos
    /\ albums' = albums
    /\ comments' = comments
    /\ requests' = requests
    /\ \/ photo_albums' = photo_albums
       \/ photo_albums' = photo_albums (+) SetToBag({LinkRow(item.id, item.album)})

\* C6: while an album item whose photo exists without a link to the album is processed,
\* the only change to the store is the new link row: the photo row stays as it is and no
\* request is made
C6_LinkOnly == [][C6_Step]_vars

TableAsStated ==
  [ps_new |-> <<1, 0, 0, 1>>, ps_skip |-> <<0, 0, 0, 0>>, al_new |-> <<1, 0, 0, 0>>,
   al_link |-> <<0, 1, 0, 0>>, al_skip |-> <<0, 0, 1, 0>>]

TableAmended == [TableAsStated EXCEPT !.al_new = <<1, 1, 0, 0>>]

\* C7 as stated: a completed item has incremented the counters of its row of the table,
\* each by 1, and no other; an album item whose photo did not exist new_photos_count only
C7_CountersAsStated == item.status = "done" => Delta = TableAsStated[item.kind]

\* C7 amended: a completed item has incremented the counters of its row of the table,
\* each by 1, and no other, but an album item whose photo did not exist has incremented
\* new_photos_count and new_associations_count
C7_Counters == item.status = "done" => Delta = TableAmended[item.kind]

\* an album item whose photo did not exist has completed
C7_Witness == item.status = "done" /\ item.kind = "al_new" /\ Delta = <<1, 1, 0, 0>>

C8_Step ==
  (/\ pc = "al_item" /\ pc' # "idle"
   /\ Head(album_photos) \in existing_photo_ids
   /\ HasLinkKey(photo_albums, Head(album_photos), album_id)) =>
    /\ skipped_photos_count' = skipped_photos_count + 1
    /\ UNCHANGED <<store, existing_photo_ids, requests, new_photos_count,
                   new_associations_count, photostream_new_count>>
    /\ item'.kind = "al_skip" /\ item'.status = "done"

\* C8: the visit of an album item whose photo is in the index and linked to the album
\* ends the item, increments skipped_photos_count by 1 and changes nothing else: no row,
\* not the index, no request
C8_SkipIsNoOp == [][C8_Step]_vars

\* an item linked by an earlier run has been skipped
C8_Witness ==
  /\ item.kind = "al_skip" /\ item.status = "done"
  /\ skipped_photos_count = 1
  /\ start.links # {}
  /\ StoredLinks = start.links

C9_Step ==
  /\ pc \in StreamPositions => photo_albums' = photo_albums
  /\ (pc = "ps_list" /\ pc' # "idle") =>
       \A i \in 1..Len(new_photos') : new_photos'[i] \notin existing_photo_ids
  /\ (pc = "ps_item" /\ pc' # "idle" /\ Head(new_photos) \in existing_photo_ids) =>
       UNCHANGED <<store, counters, requests>>

C9_State ==
  (item.kind = "ps_new" /\ item.status = "done") =>
    /\ Cardinality(PhotoRows(item.id)) = 1
    /\ Delta = <<1, 0, 0, 1>>

\* C9: no step of the photostream sweep changes the link rows; the sweep drops the ids of
\* the index from its listing, and an item whose id is in the index changes no row and no
\* counter; a completed new item has its photo row, and new_photos_count and
\* photostream_new_count have grown by 1
C9_PhotostreamSweep == []C9_State /\ [][C9_Step]_vars

\* the photostream sweep has persisted two photos and no link
C9_Witness ==
  /\ item.kind = "ps_new" /\ item.status = "done"
  /\ photo_albums = EmptyBag
  /\ photostream_new_count = 2

C11_WriteThenIndex == pc # "idle" => existing_photo_ids \subseteq StoredIds

AtMostOnce(photo_id) ==
  /\ requests[photo_id].info <= 1
  /\ requests[photo_id].thumb <= 1
  /\ requests[photo_id].comments <= 1

RequestPositions == {"ps_info", "ps_thumb", "ps_comments", "al_info", "al_thumb",
                     "al_comments"}

\* the items of the listing being swept that are still to be visited
Remaining == IF pc \in StreamPositions THEN new_photos ELSE album_photos

C13_Step ==
  (pc \in RequestPositions /\ pc' # "idle") =>
    \/ /\ Remaining' = Remaining
       /\ pc' \in RequestPositions \cup {"ps_save", "al_index"}
    \/ /\ pc = "ps_info"
       /\ new_photos' = Tail(new_photos)
       /\ new_photos' # <<>> => pc' = "ps_item"
    \/ /\ pc = "al_info"
       /\ album_photos' = Tail(album_photos)
       /\ album_photos' # <<>> => pc' = "al_item"

\* C13: a detail, thumbnail or comment request of an item, whether it succeeds, returns
\* a response that is not ok or raises, leaves the later items of the listing to be
\* visited: the sweep goes on with the same item or with the next item of the listing
C13_ItemIsolation == [][C13_Step]_vars

AlbumPositions == AlbumItemPositions \cup {"al_photos"}

C14_State ==
  /\ pc \in AlbumPositions => albums_left # <<>>
  /\ pc \in AlbumItemPositions => album_id = Head(albums_left)
  /\ pc = "done" => albums_left = <<>>

C14_Step ==
  (pc \in AlbumPositions /\ pc' # "idle") =>
    \/ albums_left' = albums_left /\ pc' \in AlbumItemPositions
    \/ /\ albums_left' = Tail(albums_left)
       /\ pc' = IF albums_left' = <<>> THEN "done" ELSE "al_photos"

\* C14: whatever happens in the sweep of an album (its listing call or a step of one of
\* its items raises), update_albums goes on with the next album of the album list, and
\* reaches the summary of the run when the list is exhausted
C14_AlbumIsolation == []C14_State /\ [][C14_Step]_vars

\* the sweep of album A was ended by an exception, album B was swept after it and the
\* run has reached its summary
C14_Witness ==
  /\ pc = "done" /\ run_failed
  /\ remote.photostream = <<>>
  /\ remote.album_photos["A"] # <<>>
  /\ Range(remote.album_photos["A"]) \subseteq given_up
  /\ item.album = "B" /\ item.status = "done" /\ item.kind = "al_new"
  /\ StoredLinks = {<<item.id, "B">>}

\* C15: a run whose photostream sweep or album sweep was dropped, because the first
\* photostream page or the album list request failed, does not end with the summary
\* and exit status 0
C15_NoSilentPhaseDrop == ~(pc = "done" /\ dropped # {})

C16_State ==
  pc \in {"load_token", "login", "auth_required", "auth_failed", "error"} =>
    /\ StoredIds = start.ids /\ StoredLinks = start.links
    /\ requests = NoRequests
    /\ counters = <<0, 0, 0, 0>>

C16_Step ==
  /\ pc \in {"load_token", "login"} => UNCHANGED store
  /\ (pc = "load_token" /\ pc' \notin {"login", "idle"}) =>
       pc' = "auth_required" /\ returncode' = 2
  /\ (pc = "login" /\ pc' \notin {"ps_list", "idle"}) =>
       pc' = "auth_required" /\ returncode' = 2

\* C16: a run without a token, or whose token the login check rejects, ends with the
\* outcome AUTH_REQUIRED (exit status 2); no sweep has started, no request for a photo
\* was made and no row was written
C16_AuthFatal == []C16_State /\ [][C16_Step]_vars

\* the outcome of the run, from its counters and the way it ended
RunOutcome ==
  CASE pc = "done" -> IF new_photos_count > 0 \/ new_associations_count > 0
                      THEN "UPDATED" ELSE "UP_TO_DATE"
    [] pc = "auth_required" -> "AUTH_REQUIRED"
    [] OTHER -> "failed"

\* the outcome a status message of the launcher reports
Reported(message) ==
  CASE message = MsgUpToDate -> "UP_TO_DATE"
    [] message = MsgUpdated -> "UPDATED"
    [] message \in {MsgAuthRequired, MsgAuthRedirect} -> "AUTH_REQUIRED"
    [] message = MsgFailed -> "failed"
    [] OTHER -> "none"

\* C17: when the process has exited, the status message the launcher derives from its
\* exit status and output reports the outcome of the run: UP_TO_DATE, UPDATED,
\* AUTH_REQUIRED or failed
C17_Outcomes ==
  pc \in Exited => Reported(run_update_message(returncode, stdout, stderr)) = RunOutcome

\* the start requests whose run is active: accepted, and the child process not ended
ActiveRuns == {r \in RequestIds : thread[r] \in {"created", "child"}}

C18_Step ==
  \A r \in RequestIds :
    (handler[r].pc = "check" /\ handler'[r].pc # "check" /\ ActiveRuns # {}) =>
      handler'[r].pc = "answered" /\ handler'[r].response = MsgBusy

\* C18: at most one run is active at a time, and a start request whose test of the
\* running flag is made while a run is active, also a run whose background thread has
\* not set the flag yet, is answered with the busy response
C18_MutualExclusion == [](Cardinality(ActiveRuns) <= 1) /\ [][C18_Step]_vars

RECURSIVE Pages(_, _)
\* the items of the pages 1..k of the fetch f, in page order
Pages(f, k) ==
  IF k = 0 THEN <<>> ELSE Pages(f, k - 1) \o PageItems(k, f.responses[k].count)

Ended == fetch.status \in {"returned", "raised"}

\* the fetch has ended with the request of a page that did not report success
EndedByFailure ==
  Ended /\ fetch.asked # <<>> /\ fetch.responses[fetch.page].stat # "ok"

\* the items the caller has after the fetch: the list returned; an exception carries none
Delivered == IF fetch.status = "returned" THEN fetch.items ELSE <<>>

\* the caller can tell the fetch from a complete one: only by an exception
ErrorSurfaced == fetch.status = "raised"

\* C19: a fetch that ends on a page k that does not report success delivers the items of
\* the pages 1..k-1 to its caller and tells the caller of the failure
C19_PartialAndError ==
  EndedByFailure => (Delivered = Pages(fetch, fetch.page - 1) /\ ErrorSurfaced)

AllOk == \A k \in 1..MaxPages : fetch.responses[k].stat = "ok"

\* the page after which the fetch of f.kind has to stop, when empty(kind) tells whether
\* a page without items stops the fetch
StopPage(f, empty(_)) ==
  CHOOSE k \in 1..MaxPages :
    /\ k >= f.total \/ (empty(f.kind) /\ f.responses[k].count = 0)
    /\ \A j \in 1..(k - 1) : ~(j >= f.total \/ (empty(f.kind) /\ f.responses[j].count = 0))

EveryKind(kind) == TRUE
PhotostreamOnly(kind) == kind = "photostream"

Sequential(f, empty(_)) ==
  /\ f.asked = [k \in 1..Len(f.asked) |-> k]
  /\ f.status = "running" =>
       /\ f.page = Len(f.asked) + 1
       /\ f.page <= StopPage(f, empty)
       /\ f.items = Pages(f, f.page - 1)
  /\ f.status = "returned" =>
       /\ Len(f.asked) = StopPage(f, empty)
       /\ f.items = Pages(f, StopPage(f, empty))

\* C20 as stated: when every page is successful, the pages 1, 2, ... are requested once
\* each and in order, the fetch stops after the first page that has reached the page
\* count or holds no item, its result is the concatenation of the pages requested, and
\* the fetch ends
C20_Pagination == [](AllOk => Sequential(fetch, EveryKind)) /\ <>Ended

\* C20 amended: when every page is successful, the pages 1, 2, ... are requested once
\* each and in order, the fetch stops after the first page that has reached the page
\* count or, for the photostream only, holds no item; its result is the concatenation of
\* the pages requested, and the fetch ends
C20_PaginationAmended == [](AllOk => Sequential(fetch, PhotostreamOnly)) /\ <>Ended

\* the photos of an album were fetched over three pages, the second without items
C20_Witness ==
  /\ fetch.kind = "album_photos" /\ fetch.status = "returned" /\ AllOk
  /\ fetch.total = 3
  /\ fetch.responses[2].count = 0
  /\ fetch.asked = <<1, 2, 3>>
  /\ fetch.items = <<<<1, 1>>, <<3, 1>>, <<3, 2>>>>

\* the sequence s is what is left of the sequence t after some of its first elements
IsSuffix(s, t) == \E k \in 0..Len(t) : s = SubSeq(t, k + 1, Len(t))

AlbumPhase == AlbumPositions \cup {"al_list"}

C21_State ==
  /\ pc \in AlbumPhase \cup {"done"} => new_photos = <<>>
  /\ pc \in AlbumPhase => IsSuffix(albums_left, remote.albums)
  /\ pc \in AlbumItemPositions => album_id = Head(albums_left)

C21_Step ==
  /\ (pc' = "al_list" /\ pc # "al_list") => (pc \in StreamPositions /\ new_photos' = <<>>)
  /\ (pc' \in StreamPositions /\ pc \notin StreamPositions) => (pc = "login" /\ pc' = "ps_list")
  /\ (pc \in AlbumPhase /\ pc' # "idle") => pc' \in AlbumPositions \cup {"done"}
  /\ (pc \in AlbumPositions /\ pc' # "idle") =>
       albums_left' \in {albums_left, Tail(albums_left)}
  /\ (pc' = "al_photos" /\ pc # "al_list") => albums_left' = Tail(albums_left)

\* C21: the album list is fetched once in a run, after the last item of the photostream
\* sweep has been processed or has failed, and no step of the photostream sweep follows
\* it; the albums of the list are swept from the first to the last, one album sweep for
\* each, the album swept being the first of the albums left
C21_PhaseOrdering == []C21_State /\ [][C21_Step]_vars

\* a run has processed two photostream items, then swept album A and album B
C21_Witness ==
  /\ pc = "done" /\ ~run_failed
  /\ photostream_new_count = 2
  /\ {r.id : r \in albums} = {"A", "B"}
  /\ item.album = "B" /\ item.status = "done"

\* the photo ids of the remote collection
RemoteIds == Range(remote.photostream) \cup {pa[1] : pa \in RemoteAlbumPairs}

\* C22: a run that ends without a failure leaves the photo ids and the links of the
\* remote collection in the store, the same sets whether it is the first run or a run
\* started after a process was terminated between any two commits; the state a
\* termination leaves has a photo row for every link row
C22_CrashResumable ==
  /\ (pc = "done" /\ ~run_failed) =>
       (StoredIds = RemoteIds /\ StoredLinks = RemoteAlbumPairs)
  /\ pc = "idle" => C3_LinkHasPhoto

\* a process was terminated between the photo commit and the link commit of p1 in album
\* A, and the next run has ended without a failure
C22_Witness ==
  /\ pc = "done" /\ ~run_failed /\ runs = 2 /\ failures = 1
  /\ remote.photostream = <<>>
  /\ start.ids = {"p1"} /\ start.links = {}
  /\ <<"p1", "A">> \in StoredLinks
  /\ StoredLinks = RemoteAlbumPairs

ListedIn(photo_id, album) == photo_id \in Range(remote.album_photos[album])

C23_State ==
  \A p \in PhotoIds :
    (pc = "done" /\ ~run_failed /\ ListedIn(p, "A") /\ ListedIn(p, "B")) =>
      /\ Cardinality(PhotoRows(p)) = 1
      /\ LinkCopies(p, "A") = 1
      /\ LinkCopies(p, "B") = 1
      /\ Cardinality({r \in BagToSet(photo_albums) : r.photo_id = p}) = 2

C23_Step ==
  \A r \in BagToSet(photo_albums) :
    r \in BagToSet(photo_albums') /\ CopiesIn(r, photo_albums') = CopiesIn(r, photo_albums)

\* C23: a photo listed by album A and by album B has, after a run without a failure, one
\* photo row and two link rows, one for each album; the insert of a link leaves every
\* link row of the table as it is
C23_ManyToMany == []C23_State /\ [][C23_Step]_vars

\* p1 is listed by both albums, and the link to B was inserted after the link to A
C23_Witness ==
  /\ pc = "done" /\ ~run_failed
  /\ ListedIn("p1", "A") /\ ListedIn("p1", "B")
  /\ item.id = "p1" /\ item.album = "B" /\ item.kind = "al_link" /\ item.status = "done"
  /\ StoredLinks = {<<"p1", "A">>, <<"p1", "B">>}

StoredAlbums == {r.id : r \in albums}

C24_Step ==
  /\ StoredAlbums \subseteq StoredAlbums'
  /\ StoredIds \subseteq StoredIds'
  /\ StoredLinks \subseteq StoredLinks'

\* C24: no step of a run, and no termination, removes an album id, a photo id or a link
\* from the store, also in a run for which the remote collection no longer lists it
C24_NeverDeletes == [][C24_Step]_vars

\* p1 was linked to album A, the remote album A lost p1, and a later run has swept
\* album A and ended; the photo and the link are still stored
C24_Witness ==
  /\ pc = "done" /\ ~run_failed /\ runs = 2
  /\ remote.album_photos["A"] = <<"p2">>
  /\ ~ListedIn("p1", "B") /\ "p1" \notin Range(remote.photostream)
  /\ "p1" \in StoredIds
  /\ <<"p1", "A">> \in StoredLinks
  /\ item.album = "A" /\ item.kind = "al_skip"

C25_Step ==
  (pc = "al_save_link" /\ pc' # "idle" /\ HasLinkKey(photo_albums, photo.id, album_id)) =>
    /\ photo_albums' = photo_albums
    /\ item'.status = "done"

\* C25: the insert of a link for a pair that has a link row leaves the table as it is,
\* the is_primary and date_added of the row included, and the item goes on without an
\* error
C25_LinkInsertIdempotent == [][C25_Step]_vars

\* a run whose index load failed has inserted the link of a pair linked by the run
\* before; the row has the date of the earlier run
C25_Witness ==
  /\ runs = 2 /\ ~start.loaded
  /\ item.kind = "al_new" /\ item.status = "done"
  /\ <<item.id, item.album>> \in start.links
  /\ \A r \in BagToSet(photo_albums) :
       (r.photo_id = item.id /\ r.album_id = item.album) => r.date_added = 1

\* C26: two signatures of the same method, URL, parameter set, application secret and
\* token secret are the same string, whatever the clock showed at the call, however
\* many calls came before it and whatever those calls signed
C26_SignatureDeterminism ==
  call.op = "sign" =>
    \A i, j \in DOMAIN call.signed :
      Range(call.signed[i].params) = Range(call.signed[j].params)
        => call.signed[i].signature = call.signed[j].signature

\* the same parameters were signed twice, at two times of the clock
C26_Witness ==
  /\ call.op = "sign"
  /\ \E i, j \in DOMAIN call.signed :
       /\ i < j
       /\ call.signed[i].clock < call.signed[j].clock
       /\ call.signed[i].params = call.signed[j].params
       /\ Len(call.signed[i].params) >= 2
       /\ call.signed[i].signature = call.signed[j].signature

\* the items of a dictionary in ascending order of their keys: the item of the
\* smallest key, then the others in ascending order
RECURSIVE ByKey(_)
ByKey(items) ==
  IF items = {} THEN <<>>
  ELSE LET first == CHOOSE x \in items : \A y \in items \ {x} : LessStr(x[1], y[1])
       IN <<first>> \o ByKey(items \ {first})

ExpectedBase(items) ==
  LET ordered == ByKey(items)
  IN upper(call.method) \o <<"&">> \o quote(call.url) \o <<"&">>
       \o quote(join(<<"&">>, [i \in DOMAIN ordered |->
                                  ordered[i][1] \o <<"=">> \o ordered[i][2]]))

ExpectedKey ==
  IF call.self.oauth_token_secret = None
  THEN quote(call.self.api_secret) \o <<"&">>
  ELSE quote(call.self.api_secret) \o <<"&">> \o quote(call.self.oauth_token_secret)

\* C27: every signature is the encoded digest, under the key urlencode(app secret) &
\* urlencode(token secret or nothing), of METHOD & urlencode(URL) & urlencode(the
\* parameters in ascending order of their keys, joined by &), so that it does not
\* depend on the order in which the parameters were supplied; a request signs all of
\* its parameters, those of the caller and those of the protocol (stated of the
\* signature returned last: the signatures before it were the last ones of earlier states)
C27_BaseStringAndKey ==
  (call.op = "sign" /\ call.signed # <<>>) =>
    LET last == call.signed[Len(call.signed)]
    IN /\ last.signature
            = b64encode(hmac_sha1(ExpectedKey, ExpectedBase(Range(last.params))))
       /\ last.kind = "oauth_request" =>
            Keys(last.params)
              = Keys(call.params) \cup Keys(oauth_params(call.self, last.clock))

\* the same parameters were signed in two orders, with no token secret
C27_Witness ==
  /\ call.op = "sign"
  /\ call.self.oauth_token_secret = None
  /\ Len(call.signed) = 2
  /\ call.signed[1].params # call.signed[2].params
  /\ Range(call.signed[1].params) = Range(call.signed[2].params)
  /\ call.signed[1].signature = call.signed[2].signature

\* the value that the precedence gives a field: nothing for an absent field, the
\* named content of a mapping (nothing when it has none), the joined elements of a
\* list, the string form of any other value
Normalized(x) ==
  IF x = Absent THEN PyStr(<<>>)
  ELSE IF x.type = "dict" THEN get(x, "_content", PyStr(<<>>))
  ELSE IF x.type = "list" THEN PyStr(join(<<",", " ">>, [i \in DOMAIN x.v |-> py_str(x.v[i]).v]))
  ELSE py_str(x)

\* C28: a persist of a photo never fails, whatever the shapes of its tags, title and
\* description, and stores for each of the three one flat string: the named content of
\* a mapping, else the joined elements of a list, else the string form of the value,
\* and the empty string for an absent field and for a mapping without content
C28_FieldNormalization ==
  (call.op = "persist" /\ call.result.status # "none") =>
    /\ call.result.status = "saved"
    /\ \A f \in {"tags", "title", "description"} :
         /\ call.result.row[f].type = "str"
         /\ call.result.row[f] = Normalized(call.photo_data[f])

\* the photo ids that the link table ties to an album id
LinkedTo(album) ==
  {p \in PhotoIds : \E l \in call.db.photo_albums : l.photo_id = p /\ l.album_id = album}

\* C29: the album list holds every album row once, and the photo_count of each is the
\* number of link rows of the album, 0 when it has none, whatever photo_count the
\* album row stores and whether or not the linked photos have rows
C29_CountFromLinks ==
  (call.op = "server" /\ call.request.route = "/api/albums") =>
    /\ call.response.status = 200
    /\ Len(call.response.body) = Cardinality(call.db.albums)
    /\ \A a \in call.db.albums :
         \E i \in DOMAIN call.response.body :
           /\ call.response.body[i].id = a.id
           /\ call.response.body[i].stored_photo_count = a.photo_count
           /\ call.response.body[i].photo_count = Cardinality(LinkedTo(a.id))

\* an album that stores 0 has two links and is listed with 2, another that stores 2
\* has no link and is listed with 0
C29_Witness ==
  /\ call.op = "server"
  /\ call.request.route = "/api/albums"
  /\ \E i, j \in DOMAIN call.response.body :
       /\ call.response.body[i].stored_photo_count = 0
       /\ call.response.body[i].photo_count = 2
       /\ call.response.body[j].stored_photo_count = 2
       /\ call.response.body[j].photo_count = 0

\* C30: a photo request that names an album (a non-empty album_id) is answered without
\* an error by the photo rows that have a link row to that album, each once, whatever
\* limit and offset the request carries; it is answered by the empty list when the
\* album id has no link row, be it the id of an album or not
C30_PhotosByAlbum ==
  (/\ call.op = "server"
   /\ call.request.route = "/api/photos"
   /\ args_get(call.request.args, "album_id", "") # "") =>
    /\ call.response.status = 200
    /\ Range(call.response.body)
         = {p \in call.db.photos : p.id \in LinkedTo(call.request.args["album_id"])}
    /\ Len(call.response.body) = Cardinality(Range(call.response.body))
    /\ LinkedTo(call.request.args["album_id"]) = {} => call.response.body = <<>>

\* a request for an album of two photos that carries a limit of 1 is answered by both,
\* while the link table also ties a photo to the other album
C30_Witness ==
  /\ call.op = "server"
  /\ call.request.route = "/api/photos"
  /\ "limit" \in DOMAIN call.request.args
  /\ args_get(call.request.args, "album_id", "") = "A"
  /\ call.request.args["limit"] = "1"
  /\ Len(call.response.body) = 2
  /\ LinkedTo("B") # {}

C31_State ==
  /\ \A r \in BagToSet(photo_albums) : r.album_id \in StoredAlbums
  /\ pc \in AlbumItemPositions => album_id \in StoredAlbums

\* a listing call that returns without a failure is followed, in the same step and
\* before any photo of the album, by the row of the album with the length of the listing
C31_Step ==
  (pc = "al_photos" /\ pc' \notin {"al_photos", "idle"} /\ failures' = failures) =>
    \E r \in albums' :
      /\ r.id = Head(albums_left)
      /\ r.photo_count = Len(remote.album_photos[Head(albums_left)])
      /\ \A q \in albums' : q.id = r.id => q = r

\* C31: an album sweep whose photo listing call returns writes the row of the album,
\* by its id, before it processes any photo of the album: every link row of the store
\* has an album row with its album_id, every photo of an album is processed with the
\* row of the album in the store, and an album without photos gets its row too
C31_AlbumBeforeLinks == []C31_State /\ [][C31_Step]_vars

\* an album without photos has its row, and a link of the other album has its album row
C31_Witness ==
  /\ pc = "done"
  /\ \E r \in albums : r.photo_count = 0 /\ remote.album_photos[r.id] = <<>>
  /\ \E l \in BagToSet(photo_albums) : l.album_id \in StoredAlbums

\* the (timestamp, nonce) pair that a signed request carries
Stamp(request) ==
  <<Get(request.params, <<"o", "a", "u", "t", "h", "_", "t", "i", "m", "e", "s", "t", "a", "m", "p">>),
    Get(request.params, <<"o", "a", "u", "t", "h", "_", "n", "o", "n", "c", "e">>)>>

\* C32: every signed request carries a nonce and a timestamp, and no two signed
\* requests carry the same (timestamp, nonce) pair, be they issued in the same second
\* of the clock or not
C32_PerCallNonce ==
  call.op = "sign" =>
    \A i, j \in DOMAIN call.signed :
      (call.signed[i].kind = "oauth_request" /\ call.signed[j].kind = "oauth_request") =>
        /\ <<"o", "a", "u", "t", "h", "_", "n", "o", "n", "c", "e">> \in Keys(call.signed[i].params)
        /\ <<"o", "a", "u", "t", "h", "_", "t", "i", "m", "e", "s", "t", "a", "m", "p">> \in Keys(call.signed[i].params)
        /\ i # j => Stamp(call.signed[i]) # Stamp(call.signed[j])

\* the start requests that lack a credential
Incomplete == {r \in RequestIds : handler[r].pc # "none" /\ ~handler[r].credentials}

C33_State ==
  \A r \in Incomplete :
    /\ thread[r] = "none"
    /\ handler[r].response \in {"none", "missing", MsgBusy}
    /\ config # r

C33_Step ==
  \A r \in Incomplete :
    (handler[r].pc = "credentials" /\ handler'[r].pc # "credentials") =>
      /\ handler'[r].pc = "answered"
      /\ handler'[r].response = "missing"
      /\ download_status' = download_status
      /\ config' = config
      /\ thread' = thread

\* C33: a start request that lacks a credential is answered as rejected and starts no
\* run: the step that answers it leaves the running flag, the status message, the
\* stored credentials and the threads as they are, and the request never has a
\* background thread
C33_MissingCredential == []C33_State /\ [][C33_Step]_vars

\* a request without credentials was rejected while the run of another request, which
\* set the flag after the test of the flag by the rejected one, is going on
C33_Witness ==
  \E r \in Incomplete :
    /\ handler[r].response = "missing"
    /\ download_status.running
    /\ \E q \in RequestIds : thread[q] = "child"

\* the start requests that were answered as accepted and whose run has not finished
Accepted ==
  {r \in RequestIds : handler[r].response = "started" /\ thread[r] # "finished"}

\* C34: from the answer that accepts a start request until the end of its background
\* run, a status query returns running = true
C34_StatusCoversRun == Accepted # {} => status_query.running

\* the messages that run_update and run_download leave when they end
FinalMessages ==
  {MsgUpToDate, MsgUpdated, MsgAuthRedirect, MsgCompleted, MsgAuthRequired, MsgFailed,
   MsgNeedAuth, MsgDownloaded, MsgDownloadEnded, MsgError}

Released(r) ==
  /\ thread[r] = "finished"
  /\ ~download_status.running
  /\ download_status.message \in FinalMessages

\* the step that ends a background thread releases the flag with a final message
C35_Step ==
  \A r \in RequestIds :
    (thread[r] # "finished" /\ thread'[r] = "finished") =>
      /\ ~download_status'.running
      /\ download_status'.message \in FinalMessages

\* C35: the background thread of every accepted start request ends, whatever the
\* child process returned and also when it could not be run, and the step that ends it
\* leaves the status at running = false with a final message; the start requests being
\* finitely many, from some point on every thread that was started has ended and the
\* flag is released for good
C35_FlagReleased ==
  /\ [][C35_Step]_vars
  /\ <>[](\A r \in RequestIds : thread[r] # "none" => Released(r))

\* two runs have ended, the later one for a missing authorization (exit code 2), and a
\* start request that came after them was accepted
C35_Witness ==
  /\ Released(1)
  /\ Released(2)
  /\ download_status.message = MsgAuthRequired
  /\ handler[3].response = "started"

(* ---------------------------- C36 --------------------------------------- *)

\* what __init__ put into the index of this process: the stored ids, or nothing when the
\* read failed
LoadedIds == IF start.loaded THEN start.ids ELSE {}

\* the counters and the index agree
C36_State ==
  /\ photostream_new_count <= new_photos_count
  /\ Cardinality(existing_photo_ids) = Cardinality(LoadedIds) + new_photos_count

\* within a process new_photos_count grows by one at a time, and each time the id of the
\* item being processed enters the index, which it was not in and never leaves
C36_Step ==
  (pc # "idle" /\ pc' # "idle" /\ runs' = runs) =>
    /\ existing_photo_ids \subseteq existing_photo_ids'
    /\ new_photos_count' \in {new_photos_count, new_photos_count + 1}
    /\ new_photos_count' = new_photos_count + 1 =>
         /\ photo.id \notin existing_photo_ids
         /\ existing_photo_ids' = existing_photo_ids \cup {photo.id}
    /\ photostream_new_count' # photostream_new_count =>
         /\ photostream_new_count' = photostream_new_count + 1
         /\ new_photos_count' = new_photos_count + 1

\* C36: at every point of a run photostream_new_count <= new_photos_count, new_photos_count
\* is incremented at most once per photo id, and the size of existing_photo_ids is its size
\* at load time plus new_photos_count
C36_CounterInvariants == []C36_State /\ [][C36_Step]_vars

\* a process that loaded an empty index has counted one photo of the photostream sweep
\* and one of the album sweep
C36_Witness ==
  /\ pc = "done"
  /\ Cardinality(LoadedIds) = 0
  /\ photostream_new_count = 1
  /\ new_photos_count = 2
  /\ existing_photo_ids = {"p1", "p2"}

(* ---------------------------- C37 --------------------------------------- *)

\* C37: in every state of the store, during and after a run, every comment row's photo_id
\* has a photo row with the same id
C37_CommentHasPhoto == \A c \in comments : c.photo_id \in StoredIds

====
